---- MODULE Spec2Model ----
(***************************************************************************)
(* A model of the pluggable RAG agent backend: the session memory store,   *)
(* the plugin manager, the streaming chunk generator and the per-request   *)
(* agent pipeline.  Text is modelled as a sequence of one-character        *)
(* strings, so that splitting, joining, trimming and pattern matching are  *)
(* computed the way the code computes them.                                *)
(***************************************************************************)
EXTENDS Integers, Sequences, FiniteSets, TLC

(***************************************************************************)
(* Bounds of the model.                                                    *)
(***************************************************************************)
MaxDocLen == 5
MaxChunkSize == 3
MaxBatchSize == 2
MaxPlugins == 3
MaxM == 2
MaxAppends == 3
MaxTicks == 2
MaxArrivals == 2
MaxFiles == 3
MaxHits == 3
MaxOperands == 3

VARIABLES
    \* ---- streamChunksFromFile (rag-streaming.ts) ----
    content,      \* the file's text
    chunkSize,    \* options.chunkSize
    batchSize,    \* options.batchSize
    words,        \* content.split(/\s+/)
    startIndex,   \* loop cursor (0-based, as in the code)
    batch,        \* the pending batch
    chunkIndex,   \* next metadata.chunkIndex
    yielded,      \* the batches handed to the consumer so far, in order
    spc,          \* position of the generator
    pass,         \* parity of the number of passes of the while loop
    \* ---- PluginManager.detectAndExecutePlugins (plugin-manager.ts) ----
    pmPlugins,    \* this.plugins, in registration order
    pmMessage,    \* the message dispatched
    pmIdx,        \* position of the for loop in this.plugins (1-based)
    pmResults,    \* results
    pmReturned,   \* the list the call returned
    pmPc,         \* position of the call
    \* ---- MemoryService (gemini.ts) ----
    maxMessages,  \* config.memory.maxMessages
    sessions,     \* this.sessions: session id -> SessionMemory
    nextId,       \* the number of uuids drawn so far
    now,          \* the clock, in milliseconds
    appendLog,    \* per live session, every message appended to it, in order
    memResult,    \* what the last MemoryService query returned
    \* ---- the agent pipeline (routes/agent.ts, agent.ts, agent-simple.ts) ----
    reqs,         \* per request slot, the locals of its processMessage call
    running,      \* the request whose continuation is running ("none" if none)
    index,        \* the backend's objects for the queries, nearest first
    arrivals,     \* the number of requests received so far
    \* ---- StreamingRAGService.processAndIndexDocuments (rag-streaming.ts) ----
    igListing,    \* the entries of data/documents, in readdir order
    igChunkSize,  \* config.rag.maxChunkTokens
    igFiles,      \* markdownFiles
    igFileIdx,    \* position of the for loop in markdownFiles (1-based)
    igPending,    \* the batches the current file's generator has still to yield
    igBatchNumber, \* batchNumber
    igFileChunks, \* fileChunks
    igTotalChunks, \* totalChunks
    igStore,      \* the chunks the sink has accepted, in order
    igHanded,     \* every batch handed to the sink so far, with its outcome
    igFailedFiles, \* the files whose processing ended in the per-file catch
    igPc,         \* position of the call
    igReply,      \* what POST /rag/process sent back
    \* ---- StreamingRAGService.search (rag-streaming.ts) ----
    srIndex,      \* the backend's objects for the query, nearest first
    srLimit,      \* options.maxSearchResults
    srThreshold,  \* options.similarityThreshold, in hundredths
    srResult,     \* what search returned
    srPc,         \* position of the call
    \* ---- MathPlugin (memory-vector-store.ts) ----
    mathInput,    \* the parts the message is written from
    mathMessage,  \* the message
    mathOutcome,  \* what execute returned, or that it threw
    mathPc,       \* position of the dispatch
    \* ---- POST /agent/message (routes/agent.ts) ----
    rtBody,       \* request.body
    rtReply,      \* what the route sent back
    rtPc,         \* position of the handler
    \* ---- AgentService.buildPrompt (agent.ts) ----
    ppInput,      \* message, memorySummary, ragResults, pluginResults
    ppPrompt,     \* the prompt returned
    ppPc,         \* position of the call
    \* ---- splitIntoChunks / simpleSplitIntoChunks ----
    spKind,       \* which of the two splitters runs
    spContent,    \* content
    spMaxTokens,  \* maxTokens
    spOverlap,    \* overlap
    spWords,      \* words / tokens
    spStart,      \* startIndex (0-based, as in the code)
    spChunks,     \* chunks, as far as they are recorded
    spPc,         \* position of the call
    spPass,       \* parity of the number of passes of the while loop
    \* ---- MemoryVectorStore (memory-vector-store.ts) ----
    vsChunks,     \* this.chunks, each chunk by the number it was added as
    vsAdded,      \* the number of chunks handed to addChunks so far
    vsCalls       \* the number of addChunks calls so far

streamVars == <<content, chunkSize, batchSize, words, startIndex, batch,
                chunkIndex, yielded, spc, pass>>

pmVars == <<pmPlugins, pmMessage, pmIdx, pmResults, pmReturned, pmPc>>

memVars == <<maxMessages, sessions, nextId, now, appendLog, memResult>>

agentVars == <<reqs, running, index, arrivals>>

ingestVars == <<igListing, igChunkSize, igFiles, igFileIdx, igPending, igBatchNumber,
                igFileChunks, igTotalChunks, igStore, igHanded, igFailedFiles, igPc,
                igReply>>

searchVars == <<srIndex, srLimit, srThreshold, srResult, srPc>>

mathVars == <<mathInput, mathMessage, mathOutcome, mathPc>>

routeVars == <<rtBody, rtReply, rtPc>>

promptVars == <<ppInput, ppPrompt, ppPc>>

splitVars == <<spKind, spContent, spMaxTokens, spOverlap, spWords, spStart, spChunks,
               spPc, spPass>>

storeVars == <<vsChunks, vsAdded, vsCalls>>

restVars == <<promptVars, splitVars, storeVars>>

vars == <<streamVars, pmVars, memVars, agentVars, ingestVars, searchVars, mathVars,
          routeVars, restVars>>

\* What the actions of one part leave alone.
notStream == <<pmVars, memVars, agentVars, ingestVars, searchVars, mathVars, routeVars,
    restVars>>
notPm == <<streamVars, memVars, agentVars, ingestVars, searchVars, mathVars, routeVars,
    restVars>>
notMem == <<streamVars, pmVars, agentVars, ingestVars, searchVars, mathVars, routeVars,
    restVars>>
notAgent == <<streamVars, pmVars, ingestVars, searchVars, mathVars, routeVars,
    restVars>>
notIngest == <<streamVars, pmVars, memVars, agentVars, searchVars, mathVars, routeVars,
    restVars>>
notSearch == <<streamVars, pmVars, memVars, agentVars, ingestVars, mathVars, routeVars,
    restVars>>
notMath == <<streamVars, pmVars, memVars, agentVars, ingestVars, searchVars, routeVars,
    restVars>>
notRoute == <<streamVars, pmVars, agentVars, ingestVars, searchVars, mathVars,
    restVars>>
mainVars == <<streamVars, pmVars, memVars, agentVars, ingestVars, searchVars, mathVars,
              routeVars>>
notPrompt == <<mainVars, splitVars, storeVars>>
notSplit == <<mainVars, promptVars, storeVars>>
notStore == <<mainVars, promptVars, splitVars>>

(***************************************************************************)
(* Text helpers.                                                           *)
(***************************************************************************)
Whitespace == {" ", "\n", "\t"}

IsWs(c) == c \in Whitespace

Min(a, b) == IF a < b THEN a ELSE b

\* The first index >= i of s that holds no whitespace (Len(s)+1 if none).
RECURSIVE SkipWs(_, _)
SkipWs(s, i) ==
    IF i > Len(s) \/ ~IsWs(s[i]) THEN i ELSE SkipWs(s, i + 1)

\* String.prototype.split(/\s+/): the pieces between maximal whitespace runs;
\* a leading or trailing run leaves an empty piece, and "" splits to [""].
RECURSIVE SplitFrom(_, _, _)
SplitFrom(s, i, cur) ==
    IF i > Len(s) THEN <<cur>>
    ELSE IF IsWs(s[i]) THEN <<cur>> \o SplitFrom(s, SkipWs(s, i), <<>>)
    ELSE SplitFrom(s, i + 1, Append(cur, s[i]))

SplitWs(s) == SplitFrom(s, 1, <<>>)

\* Array.prototype.join(' ')
RECURSIVE JoinSpace(_)
JoinSpace(ws) ==
    IF ws = <<>> THEN <<>>
    ELSE IF Len(ws) = 1 THEN ws[1]
    ELSE ws[1] \o <<" ">> \o JoinSpace(Tail(ws))

\* String.prototype.trim()
RECURSIVE TrimEnd(_)
TrimEnd(s) ==
    IF s = <<>> \/ ~IsWs(s[Len(s)]) THEN s ELSE TrimEnd(SubSeq(s, 1, Len(s) - 1))

Trim(s) == LET i == SkipWs(s, 1) IN TrimEnd(SubSeq(s, i, Len(s)))

\* Array.prototype.slice(from, to) with 0 <= from, to <= length (0-based, end
\* exclusive).
Slice(a, from, to) == SubSeq(a, from + 1, to)


(***************************************************************************)
(* Characters.                                                             *)
(***************************************************************************)
Digits == {"0", "1", "2", "3", "4", "5", "6", "7", "8", "9"}

DigitVal(c) ==
    CASE c = "0" -> 0 [] c = "1" -> 1 [] c = "2" -> 2 [] c = "3" -> 3
      [] c = "4" -> 4 [] c = "5" -> 5 [] c = "6" -> 6 [] c = "7" -> 7
      [] c = "8" -> 8 [] c = "9" -> 9

LowerLetters == {"a", "b", "c", "d", "e", "f", "g", "h", "i", "j", "k", "l", "m",
                 "n", "o", "p", "q", "r", "s", "t", "u", "v", "w", "x", "y", "z"}

UpperLetters == {"A", "B", "C", "D", "E", "F", "G", "H", "I", "J", "K", "L", "M",
                 "N", "O", "P", "Q", "R", "S", "T", "U", "V", "W", "X", "Y", "Z"}

Letters == LowerLetters \cup UpperLetters

\* The lower-case form of the letters the patterns below name (flag /i).
ToLower(c) ==
    CASE c = "W" -> "w" [] c = "E" -> "e" [] c = "A" -> "a" [] c = "T" -> "t"
      [] c = "H" -> "h" [] c = "R" -> "r" [] c = "I" -> "i" [] c = "N" -> "n"
      [] OTHER -> c

\* s holds the text t at index i (1-based), ignoring case.
HasAt(s, t, i) ==
    /\ i >= 1
    /\ i + Len(t) - 1 <= Len(s)
    /\ \A k \in 1..Len(t) : ToLower(s[i + k - 1]) = t[k]

\* String.prototype.includes
Includes(s, t) ==
    \E i \in 1..(Len(s) - Len(t) + 1) : SubSeq(s, i, i + Len(t) - 1) = t

\* s.replace(/\s+/g, '')
RemoveWs(s) == SelectSeq(s, LAMBDA c : ~IsWs(c))

(***************************************************************************)
(* Plugin results (types: Plugin, PluginResult).                           *)
(***************************************************************************)
NoData == [kind |-> "none", expression |-> <<>>, result |-> <<0, 1>>, location |-> <<>>]

PluginFailure(name, error) ==
    [name |-> name, success |-> FALSE, data |-> NoData, error |-> error]

PluginSuccess(name, data) ==
    [name |-> name, success |-> TRUE, data |-> data, error |-> <<>>]

Returned(r) == [threw |-> FALSE, result |-> r, message |-> <<>>]

Threw(msg) == [threw |-> TRUE, result |-> PluginFailure("", <<>>), message |-> msg]

(***************************************************************************)
(* MathPlugin.                                                             *)
(***************************************************************************)
MathOps == {"+", "-", "*", "/"}

\* The index after the longest run of digits that starts at i (i if none).
RECURSIVE DigitsEnd(_, _)
DigitsEnd(s, i) ==
    IF i <= Len(s) /\ s[i] \in Digits THEN DigitsEnd(s, i + 1) ELSE i

\* One repetition of (?:\s*[\+\-\*\/]\s*\d+) from index j: the index after it,
\* or 0 when it does not match there.
MathGroupEnd(s, j) ==
    LET k == SkipWs(s, j)
    IN IF k <= Len(s) /\ s[k] \in MathOps
         THEN LET d == SkipWs(s, k + 1)
                  e == DigitsEnd(s, d)
              IN IF e > d THEN e ELSE 0
         ELSE 0

\* The index after as many repetitions as match from j.
RECURSIVE MathGroupsEnd(_, _)
MathGroupsEnd(s, j) ==
    LET e == MathGroupEnd(s, j)
    IN IF e = 0 THEN j ELSE MathGroupsEnd(s, e)

\* /(\d+(?:\s*[\+\-\*\/]\s*\d+)+)/ tried at index i: the index after the match,
\* or 0.
MathMatchAt(s, i) ==
    LET d == DigitsEnd(s, i)
        e == MathGroupsEnd(s, d)
    IN IF d > i /\ e > d THEN e ELSE 0

\* message.match(...)[1]: the leftmost match, <<>> when there is none.
MathMatch(s) ==
    LET starts == {i \in 1..Len(s) : MathMatchAt(s, i) # 0}
    IN IF starts = {} THEN <<>>
       ELSE LET i == CHOOSE x \in starts : \A y \in starts : x <= y
            IN SubSeq(s, i, MathMatchAt(s, i) - 1)

MathDetectIntent(message) == MathMatch(message) # <<>>

SafeChars == Digits \cup {"+", "-", "*", "/", "(", ")", "."} \cup Whitespace

Count(s, c) == Len(SelectSeq(s, LAMBDA x : x = c))

MathIsSafeExpression(expression) ==
    /\ expression # <<>>
    /\ \A k \in 1..Len(expression) : expression[k] \in SafeChars
    /\ ~Includes(expression, <<"/", "0">>)
    /\ Count(expression, "(") = Count(expression, ")")

\* Rational numbers <<numerator, denominator>> in lowest terms, denominator > 0.
RECURSIVE Gcd(_, _)
Gcd(a, b) == IF b = 0 THEN a ELSE Gcd(b, a % b)

Abs(x) == IF x < 0 THEN -x ELSE x

Rat(n, d) ==
    LET g == Gcd(Abs(n), Abs(d))
        sg == IF d < 0 THEN -1 ELSE 1
    IN <<(sg * n) \div g, (sg * d) \div g>>

RatAdd(p, q) == Rat(p[1] * q[2] + q[1] * p[2], p[2] * q[2])
RatSub(p, q) == Rat(p[1] * q[2] - q[1] * p[2], p[2] * q[2])
RatMul(p, q) == Rat(p[1] * q[1], p[2] * q[2])
RatDiv(p, q) == Rat(p[1] * q[2], p[2] * q[1])

\* The value of a run of digits.
RECURSIVE NumVal(_)
NumVal(ds) ==
    IF ds = <<>> THEN 0
    ELSE NumVal(SubSeq(ds, 1, Len(ds) - 1)) * 10 + DigitVal(ds[Len(ds)])

\* The operands and operators of an expression of the shape
\* digits (op digits)*, in order.
RECURSIVE ParseOperands(_, _)
ParseOperands(e, i) ==
    LET d == DigitsEnd(e, i)
        n == Rat(NumVal(SubSeq(e, i, d - 1)), 1)
    IN IF d > Len(e) THEN [nums |-> <<n>>, ops |-> <<>>]
       ELSE LET rest == ParseOperands(e, d + 1)
            IN [nums |-> <<n>> \o rest.nums, ops |-> <<e[d]>> \o rest.ops]

\* mathjs evaluate on such an expression: * and / bind tighter than + and -,
\* all four associate to the left.  acc is the sum so far, term the product
\* being built, sign the sign the term enters the sum with.
RECURSIVE EvalFrom(_, _, _, _, _, _)
EvalFrom(nums, ops, k, acc, term, sign) ==
    LET signed == IF sign = 1 THEN RatAdd(acc, term) ELSE RatSub(acc, term)
    IN IF k > Len(ops) THEN signed
       ELSE IF ops[k] = "*" THEN EvalFrom(nums, ops, k + 1, acc, RatMul(term, nums[k + 1]), sign)
       ELSE IF ops[k] = "/" THEN EvalFrom(nums, ops, k + 1, acc, RatDiv(term, nums[k + 1]), sign)
       ELSE EvalFrom(nums, ops, k + 1, signed, nums[k + 1],
                     IF ops[k] = "+" THEN 1 ELSE -1)

\* isFinite on a quotient: a zero denominator stands for Infinity or NaN.
IsFinite(q) == q[2] # 0

MathjsEvaluate(e) ==
    LET p == ParseOperands(e, 1)
    IN EvalFrom(p.nums, p.ops, 1, <<0, 1>>, p.nums[1], 1)

\* MathPlugin.evaluate: the result, or the error it throws.
MathEvaluate(expression) ==
    LET cleanExpression == RemoveWs(expression)
    IN IF /\ MathIsSafeExpression(cleanExpression)
          /\ IsFinite(MathjsEvaluate(cleanExpression))
         THEN [ok |-> TRUE,
               data |-> [kind |-> "math", expression |-> cleanExpression,
                         result |-> MathjsEvaluate(cleanExpression),
                         location |-> <<>>],
               error |-> <<>>]
         ELSE [ok |-> FALSE, data |-> NoData,
               error |-> <<"Failed to evaluate: ">> \o expression]

MathExecute(message) ==
    LET expression == MathMatch(message)
    IN IF expression = <<>>
         THEN PluginFailure("math", <<"No mathematical expression found in message">>)
         ELSE LET r == MathEvaluate(expression)
              IN IF r.ok THEN PluginSuccess("math", r.data)
                 ELSE PluginFailure("math", r.error)

(***************************************************************************)
(* WeatherPlugin.                                                          *)
(***************************************************************************)
IsCityChar(c) == c \in Letters \/ IsWs(c)

\* The index after the longest run of [a-zA-Z\s] that starts at i.
RECURSIVE CityEnd(_, _)
CityEnd(s, i) ==
    IF i <= Len(s) /\ IsCityChar(s[i]) THEN CityEnd(s, i + 1) ELSE i

\* /weather\s+(?:in\s+)?([a-zA-Z\s]+)/i tried at index i: the capture group,
\* or <<>> when the pattern does not match there.  \s+ gives back its last
\* blank when the group would otherwise be empty.
WeatherMatchAt(s, i) ==
    IF ~HasAt(s, <<"w", "e", "a", "t", "h", "e", "r">>, i) THEN <<>>
    ELSE LET a == i + 7
             b == SkipWs(s, a)
             c == SkipWs(s, b + 2)
             withIn == HasAt(s, <<"i", "n">>, b) /\ c > b + 2
         IN IF b = a THEN <<>>
            ELSE IF withIn /\ CityEnd(s, c) > c THEN SubSeq(s, c, CityEnd(s, c) - 1)
            ELSE IF withIn /\ c - (b + 2) >= 2 THEN SubSeq(s, c - 1, c - 1)
            ELSE IF CityEnd(s, b) > b THEN SubSeq(s, b, CityEnd(s, b) - 1)
            ELSE IF b - a >= 2 THEN SubSeq(s, b - 1, b - 1)
            ELSE <<>>

WeatherMatched(s) == {i \in 1..Len(s) : WeatherMatchAt(s, i) # <<>>}

WeatherDetectIntent(message) == WeatherMatched(message) # {}

\* getWeather never throws: every failure of the lookup falls back to mock
\* data for the same city.  Of the data only the location is modelled; the
\* other fields are readings (or random mock values).
WeatherExecute(message) ==
    IF ~WeatherDetectIntent(message)
      THEN PluginFailure("weather", <<"No city found in message">>)
      ELSE LET i == CHOOSE x \in WeatherMatched(message) :
                       \A y \in WeatherMatched(message) : x <= y
           IN PluginSuccess("weather",
                  [kind |-> "weather", expression |-> <<>>, result |-> <<0, 1>>,
                   location |-> Trim(WeatherMatchAt(message, i))])


(***************************************************************************)
(* PluginManager.  A registered handler is the WeatherPlugin, the          *)
(* MathPlugin, or any other implementation of the Plugin interface: for    *)
(* those the model fixes what detectIntent answers for the message and     *)
(* whether execute returns a success, returns a failure, throws an Error   *)
(* or throws some other value.                                             *)
(***************************************************************************)
WeatherPlugin == [name |-> "weather", kind |-> "weather", detects |-> FALSE, behaviour |-> "ok"]

MathPlugin == [name |-> "math", kind |-> "math", detects |-> FALSE, behaviour |-> "ok"]

\* constructor: this.plugins = [new WeatherPlugin(), new MathPlugin()]
RegisteredPlugins == <<WeatherPlugin, MathPlugin>>

OtherPlugins ==
    [name : {"alpha", "beta"}, kind : {"other"}, detects : BOOLEAN,
     behaviour : {"ok", "fail", "throw", "throwValue"}]

PluginDetectIntent(p, message) ==
    CASE p.kind = "weather" -> WeatherDetectIntent(message)
      [] p.kind = "math" -> MathDetectIntent(message)
      [] OTHER -> p.detects

PluginExecute(p, message) ==
    CASE p.kind = "weather" -> Returned(WeatherExecute(message))
      [] p.kind = "math" -> Returned(MathExecute(message))
      [] p.behaviour = "ok" -> Returned(PluginSuccess(p.name, NoData))
      [] p.behaviour = "fail" -> Returned(PluginFailure(p.name, <<"not available">>))
      [] p.behaviour = "throw" -> Threw(<<"handler crashed">>)
      [] OTHER -> [threw |-> TRUE, result |-> PluginFailure("", <<>>), message |-> <<>>]

\* The body of the for loop without its catch block: a throw leaves the
\* results as they were.
PluginLoopBodyNoCatch(results, p, message) ==
    IF PluginDetectIntent(p, message)
      THEN LET r == PluginExecute(p, message)
           IN IF r.threw THEN results ELSE Append(results, r.result)
      ELSE results

\* The body of the for loop: results after the pass for plugin p.
PluginLoopBody(results, p, message) ==
    IF PluginDetectIntent(p, message)
      THEN LET r == PluginExecute(p, message)
           IN IF r.threw
                THEN Append(results,
                            PluginFailure(p.name,
                                IF p.behaviour = "throw" THEN r.message
                                ELSE <<"Unknown error">>))
                ELSE Append(results, r.result)
      ELSE results

\* The whole call, for the callers of the plugin manager.
RECURSIVE DetectAndExecuteFrom(_, _, _, _)
DetectAndExecuteFrom(plugins, message, i, results) ==
    IF i > Len(plugins) THEN results
    ELSE DetectAndExecuteFrom(plugins, message, i + 1,
                              PluginLoopBody(results, plugins[i], message))

DetectAndExecutePlugins(plugins, message) ==
    DetectAndExecuteFrom(plugins, message, 1, <<>>)

MsgMath == <<"W", "h", "a", "t", " ", "i", "s", " ", "4", "*", "3", "?">>

MsgHello == <<"h", "i">>

MsgWeather == <<"w", "e", "a", "t", "h", "e", "r", " ", "i", "n", " ", "R", "o", "m", "e">>

MsgBoth == <<"W", "e", "a", "t", "h", "e", "r", " ", "O", "s", "l", "o", " ", "1", "/", "0">>

PluginMessages == {MsgMath, MsgHello, MsgWeather, MsgBoth}

\* The sequences over pool of length n whose handlers have distinct names.
RECURSIVE Registries(_, _)
Registries(pool, n) ==
    IF n = 0 THEN {<<>>}
    ELSE LET shorter == Registries(pool, n - 1)
         IN shorter \cup
            UNION {{Append(r, p) : p \in {h \in pool :
                                            \A k \in 1..Len(r) : r[k].name # h.name}} :
                   r \in {q \in shorter : Len(q) = n - 1}}

PmInit ==
    /\ pmPlugins \in Registries({WeatherPlugin, MathPlugin} \cup OtherPlugins, MaxPlugins)
    /\ pmMessage \in PluginMessages
    /\ pmIdx = 1
    /\ pmResults = <<>>
    /\ pmReturned = <<>>
    /\ pmPc = "loop"

\* One pass of the for loop.
PmIterate ==
    /\ pmPc = "loop"
    /\ pmIdx <= Len(pmPlugins)
    /\ pmResults' = PluginLoopBody(pmResults, pmPlugins[pmIdx], pmMessage)
    /\ pmIdx' = pmIdx + 1
    /\ UNCHANGED <<pmPlugins, pmMessage, pmReturned, pmPc>>
    /\ UNCHANGED notPm

\* return results
PmReturn ==
    /\ pmPc = "loop"
    /\ pmIdx > Len(pmPlugins)
    /\ pmReturned' = pmResults
    /\ pmPc' = "done"
    /\ UNCHANGED <<pmPlugins, pmMessage, pmIdx, pmResults>>
    /\ UNCHANGED notPm

PmNext == PmIterate \/ PmReturn


(***************************************************************************)
(* MemoryService.                                                          *)
(***************************************************************************)
MsPerMinute == 60000

DefaultMessageCount == 2

DefaultMaxAgeMinutes == 1440

SessionIds == {"s1", "s2"}

Roles == {"user", "assistant"}

\* Array.prototype.slice(-n) for an integer n >= 0: the last n elements, all
\* of them when there are fewer; and slice(-0) is slice(0), the whole array.
SliceLast(a, n) ==
    IF n = 0 \/ n >= Len(a) THEN a ELSE SubSeq(a, Len(a) - n + 1, Len(a))

MemoryMessage(id, role, text, t) ==
    [id |-> id, role |-> role, content |-> text, timestamp |-> t]

NewSession(sessionId, t, m) ==
    [sessionId |-> sessionId, messages |-> <<>>, createdAt |-> t,
     lastAccessed |-> t, maxMessages |-> m]

\* Map.set / Map.delete
MapSet(f, k, v) == [x \in DOMAIN f \cup {k} |-> IF x = k THEN v ELSE f[x]]

MapDelete(f, K) == [x \in DOMAIN f \ K |-> f[x]]

\* addMessage: the session map after the call.  id is the uuid drawn, t the
\* time of the call, m the configured maximum.
AddMessageTo(ss, sessionId, role, text, id, t, m) ==
    LET session == IF sessionId \in DOMAIN ss THEN ss[sessionId]
                   ELSE NewSession(sessionId, t, m)
        pushed == Append(session.messages, MemoryMessage(id, role, text, t))
        kept == IF Len(pushed) > session.maxMessages
                  THEN SliceLast(pushed, session.maxMessages)
                  ELSE pushed
    IN MapSet(ss, sessionId, [session EXCEPT !.messages = kept, !.lastAccessed = t])

\* A getMemory that touches every session.
GetMemoryTouchAll(ss, sessionId, t) ==
    [sid \in DOMAIN ss |-> [ss[sid] EXCEPT !.lastAccessed = t]]

\* getMemory: the session map after the call (a hit touches lastAccessed).
GetMemoryTouch(ss, sessionId, t) ==
    IF sessionId \in DOMAIN ss
      THEN [ss EXCEPT ![sessionId].lastAccessed = t]
      ELSE ss

NoResult ==
    [op |-> "none", found |-> FALSE, lastMessages |-> <<>>, totalMessages |-> 0,
     sessionAge |-> 0]

\* getSummary: what it returns (read after getMemory's touch).
SummaryOf(ss, sessionId, messageCount, t) ==
    IF sessionId \notin DOMAIN ss
      THEN [op |-> "getSummary", found |-> FALSE, lastMessages |-> <<>>,
            totalMessages |-> 0, sessionAge |-> 0]
      ELSE [op |-> "getSummary", found |-> TRUE,
            lastMessages |-> SliceLast(ss[sessionId].messages, messageCount),
            totalMessages |-> Len(ss[sessionId].messages),
            sessionAge |-> (t - ss[sessionId].createdAt) \div MsPerMinute]

\* cleanupOldSessions with the comparison made inclusive.
OldSessionsInclusive(ss, maxAgeMinutes, t) ==
    {sid \in DOMAIN ss : ss[sid].lastAccessed <= t - maxAgeMinutes * MsPerMinute}

\* cleanupOldSessions: the sessions it deletes.
OldSessions(ss, maxAgeMinutes, t) ==
    {sid \in DOMAIN ss : ss[sid].lastAccessed < t - maxAgeMinutes * MsPerMinute}

MemContents == {MsgHello}

EmptyMap == [x \in {} |-> <<>>]

MemInit ==
    /\ maxMessages \in 0..MaxM
    /\ sessions = EmptyMap
    /\ nextId = 0
    /\ now = 0
    /\ appendLog = EmptyMap
    /\ memResult = NoResult

\* The callers append a user message and then the assistant's reply: in a
\* session the two roles take turns.
NextRole(log, sid) ==
    IF sid \in DOMAIN log /\ Len(log[sid]) % 2 = 1 THEN "assistant" ELSE "user"

MemAddMessage ==
    /\ nextId < MaxAppends
    /\ \E sid \in SessionIds, text \in MemContents :
        \E role \in {NextRole(appendLog, sid)} :
          /\ sessions' = AddMessageTo(sessions, sid, role, text, nextId + 1, now,
                                      maxMessages)
          /\ appendLog' = MapSet(appendLog, sid,
                                 Append(IF sid \in DOMAIN appendLog THEN appendLog[sid]
                                        ELSE <<>>,
                                        MemoryMessage(nextId + 1, role, text, now)))
    /\ nextId' = nextId + 1
    /\ memResult' = NoResult
    /\ UNCHANGED <<maxMessages, now>>
    /\ UNCHANGED notMem

MemGetMemory ==
    /\ \E sid \in SessionIds :
          /\ sessions' = GetMemoryTouch(sessions, sid, now)
          /\ memResult' = [NoResult EXCEPT !.op = "getMemory",
                                           !.found = sid \in DOMAIN sessions]
    /\ UNCHANGED <<maxMessages, nextId, now, appendLog>>
    /\ UNCHANGED notMem

MemGetSummary ==
    /\ \E sid \in SessionIds, messageCount \in 0..(MaxM + 1) :
          /\ sessions' = GetMemoryTouch(sessions, sid, now)
          /\ memResult' = SummaryOf(sessions', sid, messageCount, now)
    /\ UNCHANGED <<maxMessages, nextId, now, appendLog>>
    /\ UNCHANGED notMem

MemClearMemory ==
    /\ \E sid \in SessionIds :
          /\ sessions' = MapDelete(sessions, {sid})
          /\ appendLog' = MapDelete(appendLog, {sid})
    /\ memResult' = NoResult
    /\ UNCHANGED <<maxMessages, nextId, now>>
    /\ UNCHANGED notMem

\* The ages cleanupOldSessions is called with: the interval timer's default,
\* and shorter ones a caller may pass.
CleanupAges == {0, 1, DefaultMaxAgeMinutes}

\* cleanupOldSessions(maxAgeMinutes); memResult keeps the argument and the
\* number of sessions its log line reports.
MemCleanupOldSessions ==
    /\ \E maxAgeMinutes \in CleanupAges :
          LET old == OldSessions(sessions, maxAgeMinutes, now)
          IN /\ sessions' = MapDelete(sessions, old)
             /\ appendLog' = MapDelete(appendLog, old)
             /\ memResult' = [op |-> "cleanupOldSessions",
                              maxAgeMinutes |-> maxAgeMinutes,
                              cleaned |-> Cardinality(old)]
    /\ UNCHANGED <<maxMessages, nextId, now>>
    /\ UNCHANGED notMem

\* Time passes.
MemTick ==
    /\ now < MaxTicks * (MsPerMinute \div 2)
    /\ now' = now + MsPerMinute \div 2
    /\ UNCHANGED <<maxMessages, sessions, nextId, appendLog, memResult>>
    /\ UNCHANGED notMem

MemNext ==
    \/ MemAddMessage
    \/ MemGetMemory
    \/ MemGetSummary
    \/ MemClearMemory
    \/ MemCleanupOldSessions
    \/ MemTick

(***************************************************************************)
(* streamChunksFromFile: the generator as a state machine.  A yield is a   *)
(* position of its own: the generator is suspended there, still holding    *)
(* the batch, until the consumer asks for the next one.                    *)
(***************************************************************************)
DocAlphabet == {"a", "b", " "}

RECURSIVE TextsUpTo(_)
TextsUpTo(n) ==
    IF n = 0 THEN {<<>>}
    ELSE LET shorter == TextsUpTo(n - 1)
         IN shorter \cup {Append(t, c) : t \in {u \in shorter : Len(u) = n - 1},
                                          c \in DocAlphabet}

StreamInit ==
    /\ content \in TextsUpTo(MaxDocLen)
    /\ chunkSize \in 0..MaxChunkSize
    /\ batchSize \in 1..MaxBatchSize
    /\ words = <<>>
    /\ startIndex = 0
    /\ batch = <<>>
    /\ chunkIndex = 0
    /\ yielded = <<>>
    /\ spc = "start"
    /\ pass = 0

\* fs.readFile succeeded; const words = content.split(/\s+/)
StreamRead ==
    /\ spc = "start"
    /\ words' = SplitWs(content)
    /\ startIndex' = 0
    /\ batch' = <<>>
    /\ chunkIndex' = 0
    /\ spc' = "loop"
    /\ UNCHANGED <<pass, content, chunkSize, batchSize, yielded>>
    /\ UNCHANGED notStream

\* fs.readFile threw: the catch block logs and rethrows.
StreamReadFail ==
    /\ spc = "start"
    /\ spc' = "error"
    /\ UNCHANGED <<pass, content, chunkSize, batchSize, words, startIndex, batch,
                   chunkIndex, yielded>>
    /\ UNCHANGED notStream

\* ChunkContent with the window's end one word short.
ChunkContentShort(ws, start, size) ==
    Trim(JoinSpace(Slice(ws, start, Min(start + size - 1, Len(ws)))))

ChunkContent(ws, start, size) ==
    Trim(JoinSpace(Slice(ws, start, Min(start + size, Len(ws)))))

\* One pass of the while body up to the yield (or up to the end of the body
\* when the batch is not full).
StreamLoopStep ==
    /\ spc = "loop"
    /\ startIndex < Len(words)
    /\ LET chunkContent == ChunkContent(words, startIndex, chunkSize)
           pushed == IF chunkContent # <<>>
                       THEN Append(batch, [content |-> chunkContent,
                                           chunkIndex |-> chunkIndex])
                       ELSE batch
       IN /\ chunkIndex' = IF chunkContent # <<>> THEN chunkIndex + 1 ELSE chunkIndex
          /\ batch' = pushed
          /\ IF Len(pushed) = batchSize
               THEN /\ spc' = "yield"
                    /\ yielded' = Append(yielded, pushed)
                    /\ UNCHANGED startIndex
               ELSE /\ spc' = "loop"
                    /\ startIndex' = startIndex + chunkSize
                    /\ UNCHANGED yielded
    /\ pass' = 1 - pass
    /\ UNCHANGED <<content, chunkSize, batchSize, words>>
    /\ UNCHANGED notStream

\* StreamResume without the reset of the batch.
StreamResumeNoReset ==
    /\ spc = "yield"
    /\ startIndex' = startIndex + chunkSize
    /\ spc' = "loop"
    /\ UNCHANGED <<pass, content, chunkSize, batchSize, words, batch, chunkIndex, yielded>>
    /\ UNCHANGED notStream

\* The consumer asks for the next batch: batch = []; startIndex += chunkSize
StreamResume ==
    /\ spc = "yield"
    /\ batch' = <<>>
    /\ startIndex' = startIndex + chunkSize
    /\ spc' = "loop"
    /\ UNCHANGED <<pass, content, chunkSize, batchSize, words, chunkIndex, yielded>>
    /\ UNCHANGED notStream

\* The while condition is false: yield the remaining chunks, if any.
StreamLoopExit ==
    /\ spc = "loop"
    /\ startIndex >= Len(words)
    /\ IF Len(batch) > 0
         THEN /\ spc' = "yieldLast"
              /\ yielded' = Append(yielded, batch)
         ELSE /\ spc' = "done"
              /\ UNCHANGED yielded
    /\ UNCHANGED <<pass, content, chunkSize, batchSize, words, startIndex, batch,
                   chunkIndex>>
    /\ UNCHANGED notStream

\* The consumer asks again after the last batch: the generator returns.
StreamFinish ==
    /\ spc = "yieldLast"
    /\ spc' = "done"
    /\ UNCHANGED <<pass, content, chunkSize, batchSize, words, startIndex, batch,
                   chunkIndex, yielded>>
    /\ UNCHANGED notStream

StreamNext ==
    \/ StreamRead
    \/ StreamReadFail
    \/ StreamLoopStep
    \/ StreamResume
    \/ StreamLoopExit
    \/ StreamFinish


(***************************************************************************)
(* Text pieces of the agent: a text is a sequence of strings, the          *)
(* characters of a message one by one, a fixed wording as one piece.       *)
(***************************************************************************)
DigitChar(d) ==
    CASE d = 0 -> "0" [] d = 1 -> "1" [] d = 2 -> "2" [] d = 3 -> "3"
      [] d = 4 -> "4" [] d = 5 -> "5" [] d = 6 -> "6" [] d = 7 -> "7"
      [] d = 8 -> "8" [] d = 9 -> "9"

\* String(n) for an integer n >= 0
RECURSIVE NumText(_)
NumText(n) ==
    IF n < 10 THEN <<DigitChar(n)>> ELSE NumText(n \div 10) \o <<DigitChar(n % 10)>>

\* A number in a template literal; a result that is no integer is written
\* as its fraction here, not as JavaScript's decimal expansion.
RatText(q) ==
    (IF q[1] < 0 THEN <<"-">> ELSE <<>>) \o NumText(Abs(q[1]))
        \o (IF q[2] = 1 THEN <<>> ELSE <<"/">> \o NumText(q[2]))

\* Array.prototype.join(sep) on texts
RECURSIVE JoinWith(_, _)
JoinWith(ts, sep) ==
    IF ts = <<>> THEN <<>>
    ELSE IF Len(ts) = 1 THEN ts[1]
    ELSE ts[1] \o sep \o JoinWith(Tail(ts), sep)

\* t occurs in s as a contiguous run.
ContainsText(s, t) == t = <<>> \/ Includes(s, t)

\* Date.prototype.toISOString
IsoString(t) == [iso |-> t]

\* getFormattedSummary(sessionId) on the sessions as getMemory left them.
FormattedSummary(ss, sessionId, t) ==
    LET summary == SummaryOf(ss, sessionId, DefaultMessageCount, t)
        line(k) == <<summary.lastMessages[k].role, ": ">>
                       \o summary.lastMessages[k].content
    IN IF Len(summary.lastMessages) = 0
         THEN <<"No previous conversation history.">>
         ELSE <<"Previous conversation (last ">>
                  \o NumText(Len(summary.lastMessages)) \o <<" messages):\n">>
                  \o JoinWith([k \in 1..Len(summary.lastMessages) |-> line(k)], <<"\n">>)

(***************************************************************************)
(* Retrieval: StreamingRAGService.search over the search backend.          *)
(***************************************************************************)
MaxSearchResults == 3

SimilarityThresholdPct == 50

DefaultScorePct == 80

\* An object of the backend's class with its distance from the query, in
\* hundredths.
BackendObject(text, source, distancePct) ==
    [content |-> text, source |-> source, fileName |-> source, processedAt |-> 0,
     distance |-> distancePct]

\* result._additional?.distance ? 1 - distance : 0.8, in hundredths: a
\* distance that is missing or 0 is falsy.
ScorePct(obj) ==
    IF "distance" \in DOMAIN obj /\ obj.distance # 0
      THEN 100 - obj.distance
      ELSE DefaultScorePct

\* results.map(...) of WeaviateService.search
SearchResultOf(obj) ==
    [id |-> <<>>, content |-> obj.content, source |-> obj.source,
     score |-> ScorePct(obj),
     metadata |-> [fileName |-> obj.fileName, processedAt |-> obj.processedAt]]

HitHigh == BackendObject(<<"Markdown is a markup language">>, <<"markdown.md">>, 20)

HitLow == BackendObject(<<"Unrelated">>, <<"other.md">>, 70)

IndexChoices == {<<>>, <<HitHigh, HitLow>>}

\* WeaviateService.search: nearText with withLimit(limit) answers with the
\* `limit` nearest objects, nearest first (idx is in that order), and each
\* is mapped to a scored result.
BackendSearch(idx, limit) ==
    [k \in 1..Min(limit, Len(idx)) |-> SearchResultOf(idx[k])]

\* search that answers a failure of the backend with what it holds, unfiltered.
RagSearchLeaksOnFailure(backendOk, idx, maxResults, thresholdPct) ==
    IF backendOk
      THEN SelectSeq(BackendSearch(idx, maxResults), LAMBDA h : h.score >= thresholdPct)
      ELSE BackendSearch(idx, maxResults)

\* StreamingRAGService.search: [] when the backend failed, else the hits at
\* or above the threshold.
RagSearch(backendOk, idx, maxResults, thresholdPct) ==
    IF backendOk
      THEN SelectSeq(BackendSearch(idx, maxResults), LAMBDA h : h.score >= thresholdPct)
      ELSE <<>>

\* used_chunks: ragResults.map(...)
UsedChunks(ragResults) ==
    [k \in 1..Len(ragResults) |->
        [content |-> ragResults[k].content, source |-> ragResults[k].source,
         score |-> ragResults[k].score, metadata |-> ragResults[k].metadata]]

(***************************************************************************)
(* Prompt and reply.                                                       *)
(***************************************************************************)
DocumentLines(ragResults, unknown, noContent) ==
    IF Len(ragResults) > 0
      THEN JoinWith([k \in 1..Len(ragResults) |->
                        NumText(k) \o <<". Source: ">>
                          \o (IF ragResults[k].source = <<>> THEN unknown
                              ELSE ragResults[k].source)
                          \o <<"\nContent: ">>
                          \o (IF ragResults[k].content = <<>> THEN noContent
                              ELSE ragResults[k].content)
                          \o <<"\n">>],
                    <<"\n">>)
      ELSE <<"No relevant documents found.\n">>

UpperName(name) ==
    CASE name = "weather" -> "WEATHER" [] name = "math" -> "MATH" [] OTHER -> name

PluginLine(k, r) ==
    IF r.success
      THEN NumText(k) \o <<". ", UpperName(r.name), " Plugin:\n">>
             \o (IF r.name = "weather"
                   THEN <<"   Location: ">> \o r.data.location
                          \o <<"\n   Temperature, Condition, Humidity, Wind Speed\n">>
                 ELSE IF r.name = "math"
                   THEN <<"   Expression: ">> \o r.data.expression
                          \o <<"\n   Result: ">> \o RatText(r.data.result) \o <<"\n">>
                 ELSE <<>>)
      ELSE NumText(k) \o <<". ", UpperName(r.name), " Plugin: Failed - ">>
             \o r.error \o <<"\n">>

RECURSIVE PluginLines(_, _)
PluginLines(pluginResults, k) ==
    IF k > Len(pluginResults) THEN <<>>
    ELSE PluginLine(k, pluginResults[k]) \o PluginLines(pluginResults, k + 1)

\* buildPrompt with the plugin results put after the user message.
BuildPromptPluginsLast(message, memorySummary, ragResults, pluginResults) ==
    <<"You are a helpful AI assistant with access to conversation memory, document knowledge, and plugin capabilities.\n\n",
      "## CONVERSATION MEMORY\n">>
      \o memorySummary
      \o <<"\n\n", "## DOCUMENT CONTEXT\n">>
      \o DocumentLines(ragResults, <<>>, <<>>)
      \o <<"\n", "## USER MESSAGE\n">>
      \o message
      \o (IF Len(pluginResults) > 0
            THEN <<"\n", "## PLUGIN RESULTS\n">> \o PluginLines(pluginResults, 1)
            ELSE <<>>)
      \o <<"\n\n", "## INSTRUCTIONS\n", "(the instruction block)", "\n## RESPONSE\n">>

\* AgentService.buildPrompt
BuildPrompt(message, memorySummary, ragResults, pluginResults) ==
    <<"You are a helpful AI assistant with access to conversation memory, document knowledge, and plugin capabilities.\n\n",
      "## CONVERSATION MEMORY\n">>
      \o memorySummary
      \o <<"\n\n", "## DOCUMENT CONTEXT\n">>
      \o DocumentLines(ragResults, <<>>, <<>>)
      \o (IF Len(pluginResults) > 0
            THEN <<"\n", "## PLUGIN RESULTS\n">> \o PluginLines(pluginResults, 1)
            ELSE <<>>)
      \o <<"\n", "## USER MESSAGE\n">>
      \o message
      \o <<"\n\n", "## INSTRUCTIONS\n", "(the instruction block)", "\n## RESPONSE\n">>

\* SimpleAgentService.buildPrompt
BuildPromptSimple(message, memorySummary, ragResults) ==
    <<"You are a helpful AI assistant with access to conversation memory and document knowledge.\n\n",
      "## CONVERSATION MEMORY\n">>
      \o memorySummary
      \o <<"\n\n", "## RELEVANT DOCUMENT CONTEXT\n">>
      \o DocumentLines(ragResults, <<"Unknown">>, <<"No content">>)
      \o <<"\n", "## USER MESSAGE\n">>
      \o message
      \o <<"\n\n", "## INSTRUCTIONS\n", "(the instruction block)", "\n## RESPONSE\n">>

\* A fallback reply that does not echo the message.
FallbackReplyNoEcho(message) ==
    <<"I apologize, but I cannot generate a response at the moment.">>

\* The reply used when generateCompletion throws.
FallbackReply(message) ==
    <<"I understand you asked: \"">> \o message
      \o <<"\". Based on the available context, I can provide some information, but I'm currently experiencing technical difficulties with my AI generation capabilities.">>

LlmReplies == {<<"Here is what I found.">>}

\* A snapshot taken before the last message was appended.
MemorySnapshotStale(ss, sessionId) ==
    IF sessionId \in DOMAIN ss
      THEN [k \in 1..(Len(ss[sessionId].messages) - 1) |->
               [role |-> ss[sessionId].messages[k].role,
                content |-> ss[sessionId].messages[k].content,
                timestamp |-> IsoString(ss[sessionId].messages[k].timestamp)]]
      ELSE <<>>

\* memory?.messages.map(...) || []
MemorySnapshot(ss, sessionId) ==
    IF sessionId \in DOMAIN ss
      THEN [k \in 1..Len(ss[sessionId].messages) |->
               [role |-> ss[sessionId].messages[k].role,
                content |-> ss[sessionId].messages[k].content,
                timestamp |-> IsoString(ss[sessionId].messages[k].timestamp)]]
      ELSE <<>>

\* The ids of the messages a session holds, in order (history for the
\* properties: the response does not carry them).
MessageIds(ss, sessionId) ==
    IF sessionId \in DOMAIN ss
      THEN [k \in 1..Len(ss[sessionId].messages) |-> ss[sessionId].messages[k].id]
      ELSE <<>>

(***************************************************************************)
(* The agent pipeline.  A request is a call of processMessage: through the *)
(* POST /agent/message route, which runs SimpleAgentService, or of         *)
(* AgentService directly.  Node runs one continuation at a time: a request *)
(* that awaits one of the memory service's calls, which settle without      *)
(* I/O, goes on in the same turn, and other requests get to run only while  *)
(* it waits for the search backend, the language model or a plugin's        *)
(* network call.                                                            *)
(***************************************************************************)
ReqIds == {"r1", "r2"}

AgentMessages == {MsgMath, MsgHello}

NoResponse ==
    [reply |-> <<>>, used_chunks |-> <<>>, plugins_used |-> <<>>,
     memory_snapshot |-> <<>>, session_id |-> "none"]

IdleReq ==
    [pc |-> "idle", via |-> "none", svc |-> "none", sessionId |-> "none",
     message |-> <<>>, memorySummary |-> <<>>, pluginResults |-> <<>>,
     ragResults |-> <<>>, prompt |-> <<>>, aiResponse |-> <<>>,
     searchFailed |-> FALSE, llmFailed |-> FALSE, userMsgId |-> 0, asstMsgId |-> 0,
     response |-> NoResponse, status |-> 0, stages |-> <<>>, snapshotIds |-> <<>>]

\* The configured maxima tried with concurrent requests: none (slice(-0)),
\* one (the reply pushes the question out), and the largest.
AgentMaxima == {0, 1, MaxM}

AgentInit ==
    /\ maxMessages \in AgentMaxima
    /\ sessions = EmptyMap
    /\ nextId = 0
    /\ now = 0
    /\ appendLog = EmptyMap
    /\ memResult = NoResult
    /\ reqs = [r \in ReqIds |-> IdleReq]
    /\ running = "none"
    /\ index \in IndexChoices
    /\ arrivals = 0

LogAppend(log, sessionId, msg) ==
    MapSet(log, sessionId,
           Append(IF sessionId \in DOMAIN log THEN log[sessionId] ELSE <<>>, msg))

Stage(r, name) == Append(reqs[r].stages, name)

Free(r) == reqs[r].pc \in {"idle", "done", "failed", "rejected"}

\* A request is received: the route handler (or a direct caller) calls
\* processMessage.  The slots only name the calls in progress, so a new call
\* takes "r1" whenever that is free; session ids are only names too, so the
\* first session is "s1".
Arrive(r) ==
    /\ running = "none"
    /\ Free(r)
    /\ r = "r1" \/ ~Free("r1")
    /\ arrivals < MaxArrivals
    /\ \E via \in {"endpoint", "direct"}, msg \in AgentMessages,
          sid \in {x \in SessionIds : x = "s1" \/ "s1" \in DOMAIN sessions} :
          reqs' = [reqs EXCEPT ![r] =
                      [IdleReq EXCEPT !.pc = "start", !.via = via,
                                      !.svc = IF via = "endpoint" THEN "simple" ELSE "agent",
                                      !.sessionId = sid, !.message = msg]]
    /\ running' = r
    /\ arrivals' = arrivals + 1
    /\ UNCHANGED <<index, memVars>>
    /\ UNCHANGED notAgent

\* 1. await this.memoryService.addMessage(sessionId, 'user', message)
AppendUser(r) ==
    /\ running = r
    /\ reqs[r].pc = "start"
    /\ sessions' = AddMessageTo(sessions, reqs[r].sessionId, "user", reqs[r].message,
                                nextId + 1, now, maxMessages)
    /\ appendLog' = LogAppend(appendLog, reqs[r].sessionId,
                              MemoryMessage(nextId + 1, "user", reqs[r].message, now))
    /\ nextId' = nextId + 1
    /\ reqs' = [reqs EXCEPT ![r].pc = "summary", ![r].userMsgId = nextId + 1,
                            ![r].stages = Stage(r, "appendUser")]
    /\ UNCHANGED <<maxMessages, now, memResult, running, index, arrivals>>
    /\ UNCHANGED notAgent

\* 2. const memorySummary = await this.memoryService.getFormattedSummary(sessionId)
Summarize(r) ==
    /\ running = r
    /\ reqs[r].pc = "summary"
    /\ sessions' = GetMemoryTouch(sessions, reqs[r].sessionId, now)
    /\ reqs' = [reqs EXCEPT
                   ![r].pc = IF reqs[r].svc = "agent" THEN "plugins" ELSE "search",
                   ![r].memorySummary = FormattedSummary(sessions', reqs[r].sessionId, now),
                   ![r].stages = Stage(r, "summary")]
    /\ UNCHANGED <<maxMessages, nextId, now, appendLog, memResult, running, index, arrivals>>
    /\ UNCHANGED notAgent

\* 3. (AgentService) this.pluginManager.detectAndExecutePlugins(message) is
\* called and awaited.
PluginsStart(r) ==
    /\ running = r
    /\ reqs[r].pc = "plugins"
    /\ reqs' = [reqs EXCEPT ![r].pc = "pluginsWait", ![r].stages = Stage(r, "pluginsStart")]
    /\ running' = "none"
    /\ UNCHANGED <<index, arrivals, memVars>>
    /\ UNCHANGED notAgent

\* ... and its result arrives.
PluginsDone(r) ==
    /\ running = "none"
    /\ reqs[r].pc = "pluginsWait"
    /\ reqs' = [reqs EXCEPT
                   ![r].pc = "search",
                   ![r].pluginResults = DetectAndExecutePlugins(RegisteredPlugins,
                                                                reqs[r].message),
                   ![r].stages = Stage(r, "pluginsDone")]
    /\ running' = r
    /\ UNCHANGED <<index, arrivals, memVars>>
    /\ UNCHANGED notAgent

\* 4. the search is issued and awaited.
SearchStart(r) ==
    /\ running = r
    /\ reqs[r].pc = "search"
    /\ reqs' = [reqs EXCEPT ![r].pc = "searchWait", ![r].stages = Stage(r, "searchStart")]
    /\ running' = "none"
    /\ UNCHANGED <<index, arrivals, memVars>>
    /\ UNCHANGED notAgent

\* ... and its result arrives: the backend answered or failed.
SearchDone(r) ==
    /\ running = "none"
    /\ reqs[r].pc = "searchWait"
    /\ \E backendOk \in BOOLEAN :
          reqs' = [reqs EXCEPT
                      ![r].pc = "prompt",
                      ![r].ragResults = RagSearch(backendOk, index, MaxSearchResults,
                                                  SimilarityThresholdPct),
                      ![r].searchFailed = ~backendOk,
                      ![r].stages = Stage(r, "searchDone")]
    /\ running' = r
    /\ UNCHANGED <<index, arrivals, memVars>>
    /\ UNCHANGED notAgent

\* 5. const prompt = this.buildPrompt(...)
PromptBuild(r) ==
    /\ running = r
    /\ reqs[r].pc = "prompt"
    /\ reqs' = [reqs EXCEPT
                   ![r].pc = "generate",
                   ![r].prompt = IF reqs[r].svc = "agent"
                                   THEN BuildPrompt(reqs[r].message, reqs[r].memorySummary,
                                                    reqs[r].ragResults, reqs[r].pluginResults)
                                   ELSE BuildPromptSimple(reqs[r].message,
                                                          reqs[r].memorySummary,
                                                          reqs[r].ragResults),
                   ![r].stages = Stage(r, "promptBuilt")]
    /\ UNCHANGED <<running, index, arrivals, memVars>>
    /\ UNCHANGED notAgent

\* 6. geminiService.generateCompletion(...) is called and awaited.
GenerateStart(r) ==
    /\ running = r
    /\ reqs[r].pc = "generate"
    /\ reqs' = [reqs EXCEPT ![r].pc = "llmWait", ![r].stages = Stage(r, "generateStart")]
    /\ running' = "none"
    /\ UNCHANGED <<index, arrivals, memVars>>
    /\ UNCHANGED notAgent

\* GenerateDone that goes straight to the response, without the append.
GenerateDoneSkipAppend(r) ==
    /\ running = "none"
    /\ reqs[r].pc = "llmWait"
    /\ \E failed \in BOOLEAN, text \in LlmReplies :
          reqs' = [reqs EXCEPT
                      ![r].pc = "respond",
                      ![r].aiResponse = IF failed THEN FallbackReply(reqs[r].message)
                                        ELSE text,
                      ![r].llmFailed = failed,
                      ![r].stages = Stage(r, "generated")]
    /\ running' = r
    /\ UNCHANGED <<index, arrivals, memVars>>
    /\ UNCHANGED notAgent

\* ... and it returns a completion, or throws and the catch block puts the
\* fallback reply in its place.
GenerateDone(r) ==
    /\ running = "none"
    /\ reqs[r].pc = "llmWait"
    /\ \E failed \in BOOLEAN, text \in LlmReplies :
          reqs' = [reqs EXCEPT
                      ![r].pc = "appendAssistant",
                      ![r].aiResponse = IF failed THEN FallbackReply(reqs[r].message)
                                        ELSE text,
                      ![r].llmFailed = failed,
                      ![r].stages = Stage(r, "generated")]
    /\ running' = r
    /\ UNCHANGED <<index, arrivals, memVars>>
    /\ UNCHANGED notAgent

\* 7. await this.memoryService.addMessage(sessionId, 'assistant', aiResponse)
AppendAssistant(r) ==
    /\ running = r
    /\ reqs[r].pc = "appendAssistant"
    /\ sessions' = AddMessageTo(sessions, reqs[r].sessionId, "assistant",
                                reqs[r].aiResponse, nextId + 1, now, maxMessages)
    /\ appendLog' = LogAppend(appendLog, reqs[r].sessionId,
                              MemoryMessage(nextId + 1, "assistant", reqs[r].aiResponse, now))
    /\ nextId' = nextId + 1
    /\ reqs' = [reqs EXCEPT ![r].pc = "respond", ![r].asstMsgId = nextId + 1,
                            ![r].stages = Stage(r, "appendAssistant")]
    /\ UNCHANGED <<maxMessages, now, memResult, running, index, arrivals>>
    /\ UNCHANGED notAgent

\* 8. getMemory, the snapshot, and the response object; processMessage
\* returns.  SimpleAgentService reports no plugins.
Respond(r) ==
    /\ running = r
    /\ reqs[r].pc = "respond"
    /\ sessions' = GetMemoryTouch(sessions, reqs[r].sessionId, now)
    /\ reqs' = [reqs EXCEPT
                   ![r].pc = "done",
                   ![r].response =
                       [reply |-> reqs[r].aiResponse,
                        used_chunks |-> UsedChunks(reqs[r].ragResults),
                        plugins_used |-> IF reqs[r].svc = "agent"
                                           THEN reqs[r].pluginResults ELSE <<>>,
                        memory_snapshot |-> MemorySnapshot(sessions', reqs[r].sessionId),
                        session_id |-> reqs[r].sessionId],
                   ![r].status = IF reqs[r].via = "endpoint" THEN 200 ELSE 0,
                   ![r].stages = Stage(r, "responseBuilt"),
                   ![r].snapshotIds = MessageIds(sessions', reqs[r].sessionId)]
    /\ running' = "none"
    /\ UNCHANGED <<maxMessages, nextId, now, appendLog, memResult, index, arrivals>>
    /\ UNCHANGED notAgent

AgentNext ==
    \E r \in ReqIds :
        \/ Arrive(r)
        \/ AppendUser(r)
        \/ Summarize(r)
        \/ PluginsStart(r)
        \/ PluginsDone(r)
        \/ SearchStart(r)
        \/ SearchDone(r)
        \/ PromptBuild(r)
        \/ GenerateStart(r)
        \/ GenerateDone(r)
        \/ AppendAssistant(r)
        \/ Respond(r)

(***************************************************************************)
(* Ingestion: StreamingRAGService.processAndIndexDocuments, called by      *)
(* POST /rag/process.                                                      *)
(***************************************************************************)
IngestBatchSize == 3

\* What streamChunksFromFile yields for a file that can be read, from the
\* loop position `start` on: the batches in order.
RECURSIVE GeneratorBatches(_, _, _, _, _, _, _)
GeneratorBatches(ws, start, size, bsize, pending, idx, source) ==
    IF start >= Len(ws)
      THEN IF Len(pending) > 0 THEN <<pending>> ELSE <<>>
      ELSE LET chunkContent == ChunkContent(ws, start, size)
               pushed == IF chunkContent # <<>>
                           THEN Append(pending, [content |-> chunkContent,
                                                 chunkIndex |-> idx,
                                                 source |-> source])
                           ELSE pending
               next == IF chunkContent # <<>> THEN idx + 1 ELSE idx
           IN IF Len(pushed) = bsize
                THEN <<pushed>> \o GeneratorBatches(ws, start + size, size, bsize,
                                                    <<>>, next, source)
                ELSE GeneratorBatches(ws, start + size, size, bsize, pushed, next,
                                      source)

FileBatches(file, size) ==
    GeneratorBatches(SplitWs(file.content), 0, size, IngestBatchSize, <<>>, 0,
                     file.name)

\* file.endsWith('.md') && file !== 'README.md'
IsMarkdownFile(file) == file.ext = "md" /\ file.name # <<"README", ".", "md">>

DocEmpty == <<>>

DocTwo == <<"a", " ", "b">>

DocSeven == <<"a", " ", "b", " ", "a", " ", "b", " ", "a", " ", "b", " ", "a">>

IngestDocs == {DocEmpty, DocTwo, DocSeven}

DirEntry(base, ext, readable, text) ==
    [name |-> base \o <<".", ext>>, ext |-> ext, readable |-> readable,
     content |-> text]

\* What the k-th entry of the directory can be: a markdown document that
\* can or cannot be read, a file of another type, or (first) the README.
EntryChoices(k) ==
    {DirEntry(<<"doc">> \o NumText(k), "md", TRUE, c) : c \in IngestDocs}
      \cup {DirEntry(<<"doc">> \o NumText(k), "md", FALSE, DocTwo)}
      \cup {DirEntry(<<"doc">> \o NumText(k), "txt", TRUE, DocTwo)}
      \cup (IF k = 1 THEN {DirEntry(<<"README">>, "md", TRUE, DocTwo)} ELSE {})

RECURSIVE Listings(_)
Listings(n) ==
    IF n = 0 THEN {<<>>}
    ELSE Listings(n - 1)
           \cup {Append(l, e) : l \in {x \in Listings(n - 1) : Len(x) = n - 1},
                                e \in EntryChoices(n)}

NoReply == [status |-> 0]

IngestInit ==
    /\ igListing \in Listings(MaxFiles)
    /\ igChunkSize \in 1..MaxChunkSize
    /\ igFiles = <<>>
    /\ igFileIdx = 0
    /\ igPending = <<>>
    /\ igBatchNumber = 0
    /\ igFileChunks = 0
    /\ igTotalChunks = 0
    /\ igStore = <<>>
    /\ igHanded = <<>>
    /\ igFailedFiles = <<>>
    /\ igPc = "start"
    /\ igReply = NoReply

\* fs.readdir succeeds; the markdown files are selected; with none of them
\* the call returns at once.
IngestReaddir ==
    /\ igPc = "start"
    /\ igFiles' = SelectSeq(igListing, IsMarkdownFile)
    /\ igFileIdx' = 1
    /\ igTotalChunks' = 0
    /\ igPc' = IF Len(igFiles') = 0 THEN "returned" ELSE "file"
    /\ UNCHANGED <<igListing, igChunkSize, igPending, igBatchNumber, igFileChunks,
                   igStore, igHanded, igFailedFiles, igReply>>
    /\ UNCHANGED notIngest

\* fs.readdir fails: the outer catch rethrows.
IngestReaddirFail ==
    /\ igPc = "start"
    /\ igPc' = "threw"
    /\ UNCHANGED <<igListing, igChunkSize, igFiles, igFileIdx, igPending,
                   igBatchNumber, igFileChunks, igTotalChunks, igStore, igHanded,
                   igFailedFiles, igReply>>
    /\ UNCHANGED notIngest

\* The next file: its generator is created and asked for its first batch,
\* and the file is read.
IngestOpenFile ==
    /\ igPc = "file"
    /\ igFileIdx <= Len(igFiles)
    /\ igFiles[igFileIdx].readable
    /\ igPending' = FileBatches(igFiles[igFileIdx], igChunkSize)
    /\ igBatchNumber' = 0
    /\ igFileChunks' = 0
    /\ igPc' = "batches"
    /\ UNCHANGED <<igListing, igChunkSize, igFiles, igFileIdx, igTotalChunks,
                   igStore, igHanded, igFailedFiles, igReply>>
    /\ UNCHANGED notIngest

\* IngestFileFail without the per-file catch: the failure ends the call.
IngestFileFailAborts ==
    /\ igPc = "file"
    /\ igFileIdx <= Len(igFiles)
    /\ ~igFiles[igFileIdx].readable
    /\ igPc' = "threw"
    /\ UNCHANGED <<igListing, igChunkSize, igFiles, igFileIdx, igPending,
                   igBatchNumber, igFileChunks, igTotalChunks, igStore, igHanded,
                   igFailedFiles, igReply>>
    /\ UNCHANGED notIngest

\* ... and the read fails: the generator rethrows, the per-file catch logs
\* it, and the loop goes on with the next file.
IngestFileFail ==
    /\ igPc = "file"
    /\ igFileIdx <= Len(igFiles)
    /\ ~igFiles[igFileIdx].readable
    /\ igFailedFiles' = Append(igFailedFiles, igFiles[igFileIdx].name)
    /\ igBatchNumber' = 0
    /\ igFileChunks' = 0
    /\ igFileIdx' = igFileIdx + 1
    /\ UNCHANGED <<igListing, igChunkSize, igFiles, igPending, igTotalChunks,
                   igStore, igHanded, igPc, igReply>>
    /\ UNCHANGED notIngest

\* IngestSendBatch where a batch the sink refuses ends the file's loop.
IngestSendBatchStopsFile ==
    /\ igPc = "batches"
    /\ Len(igPending) > 0
    /\ \E accepted \in BOOLEAN :
          LET chunkBatch == Head(igPending)
          IN /\ igHanded' = Append(igHanded, [file |-> igFiles[igFileIdx].name,
                                              batch |-> chunkBatch,
                                              accepted |-> accepted])
             /\ igStore' = IF accepted THEN igStore \o chunkBatch ELSE igStore
             /\ igFileChunks' = IF accepted THEN igFileChunks + Len(chunkBatch)
                                ELSE igFileChunks
             /\ igTotalChunks' = IF accepted THEN igTotalChunks + Len(chunkBatch)
                                 ELSE igTotalChunks
             /\ igPending' = IF accepted THEN Tail(igPending) ELSE <<>>
    /\ igBatchNumber' = igBatchNumber + 1
    /\ UNCHANGED <<igListing, igChunkSize, igFiles, igFileIdx, igFailedFiles, igPc,
                   igReply>>
    /\ UNCHANGED notIngest

\* One pass of the for-await body: the batch goes to addChunks, which
\* accepts it or throws; a throw is logged by the per-batch catch.
IngestSendBatch ==
    /\ igPc = "batches"
    /\ Len(igPending) > 0
    /\ \E accepted \in BOOLEAN :
          LET chunkBatch == Head(igPending)
          IN /\ igHanded' = Append(igHanded, [file |-> igFiles[igFileIdx].name,
                                              batch |-> chunkBatch,
                                              accepted |-> accepted])
             /\ igStore' = IF accepted THEN igStore \o chunkBatch ELSE igStore
             /\ igFileChunks' = IF accepted THEN igFileChunks + Len(chunkBatch)
                                ELSE igFileChunks
             /\ igTotalChunks' = IF accepted THEN igTotalChunks + Len(chunkBatch)
                                 ELSE igTotalChunks
    /\ igBatchNumber' = igBatchNumber + 1
    /\ igPending' = Tail(igPending)
    /\ UNCHANGED <<igListing, igChunkSize, igFiles, igFileIdx, igFailedFiles, igPc,
                   igReply>>
    /\ UNCHANGED notIngest

\* The generator is exhausted: on to the next file.
IngestFileDone ==
    /\ igPc = "batches"
    /\ Len(igPending) = 0
    /\ igFileIdx' = igFileIdx + 1
    /\ igPc' = "file"
    /\ UNCHANGED <<igListing, igChunkSize, igFiles, igPending, igBatchNumber,
                   igFileChunks, igTotalChunks, igStore, igHanded, igFailedFiles,
                   igReply>>
    /\ UNCHANGED notIngest

\* The for loop over the files ends: the total is logged and the call
\* returns (nothing).
IngestReturn ==
    /\ igPc = "file"
    /\ igFileIdx > Len(igFiles)
    /\ igPc' = "returned"
    /\ UNCHANGED <<igListing, igChunkSize, igFiles, igFileIdx, igPending,
                   igBatchNumber, igFileChunks, igTotalChunks, igStore, igHanded,
                   igFailedFiles, igReply>>
    /\ UNCHANGED notIngest

\* POST /rag/process answers the caller.
RagProcessReply ==
    /\ igPc \in {"returned", "threw"}
    /\ igReply' = IF igPc = "returned"
                    THEN [status |-> 200, success |-> TRUE,
                          message |-> "Documents processed and indexed successfully"]
                    ELSE [status |-> 500, success |-> FALSE,
                          error |-> "Failed to process documents"]
    /\ igPc' = IF igPc = "returned" THEN "replied" ELSE "repliedError"
    /\ UNCHANGED <<igListing, igChunkSize, igFiles, igFileIdx, igPending,
                   igBatchNumber, igFileChunks, igTotalChunks, igStore, igHanded,
                   igFailedFiles>>
    /\ UNCHANGED notIngest

IngestNext ==
    \/ IngestReaddir
    \/ IngestReaddirFail
    \/ IngestOpenFile
    \/ IngestFileFail
    \/ IngestSendBatch
    \/ IngestFileDone
    \/ IngestReturn
    \/ RagProcessReply

(***************************************************************************)
(* A call of StreamingRAGService.search on its own.                        *)
(***************************************************************************)
DistanceChoices == {0, 5, 40, 70}

ThresholdChoices == {50, 70, 90}

\* The lists of up to n objects in the order the backend ranks them: by
\* distance, nearest first.
RECURSIVE RankedObjects(_)
RankedObjects(n) ==
    IF n = 0 THEN {<<>>}
    ELSE RankedObjects(n - 1)
           \cup UNION {{Append(l, BackendObject(<<"chunk">> \o NumText(n),
                                                <<"doc.md">>, d)) :
                           d \in {c \in DistanceChoices :
                                    \A k \in 1..(n - 1) : l[k].distance <= c}} :
                        l \in {x \in RankedObjects(n - 1) : Len(x) = n - 1}}

SearchInit ==
    /\ srIndex \in RankedObjects(MaxHits)
    /\ srLimit \in 1..MaxHits
    /\ srThreshold \in ThresholdChoices
    /\ srResult = <<>>
    /\ srPc = "call"

\* The backend answers.
SearchReturns ==
    /\ srPc = "call"
    /\ srResult' = RagSearch(TRUE, srIndex, srLimit, srThreshold)
    /\ srPc' = "returned"
    /\ UNCHANGED <<srIndex, srLimit, srThreshold>>
    /\ UNCHANGED notSearch

\* The backend fails: WeaviateService.search rethrows and search's catch
\* returns [].
SearchBackendFails ==
    /\ srPc = "call"
    /\ srResult' = RagSearch(FALSE, srIndex, srLimit, srThreshold)
    /\ srPc' = "returnedAfterFailure"
    /\ UNCHANGED <<srIndex, srLimit, srThreshold>>
    /\ UNCHANGED notSearch

SearchNext ==
    \/ SearchReturns
    \/ SearchBackendFails

(***************************************************************************)
(* The math plugin on its own: PluginManager's dispatch of one message to  *)
(* MathPlugin (detectIntent, then execute).  The message is written from   *)
(* operands and operators, with or without blanks around the operators and *)
(* with or without a parenthesis before and after.                         *)
(***************************************************************************)
MathOperandTexts == {<<"2">>, <<"5">>, <<"1", "0">>, <<"0">>, <<"0", "2">>}

MathInputs ==
    UNION {[nums : [1..n -> MathOperandTexts], ops : [1..(n - 1) -> MathOps],
            spaced : BOOLEAN, open : BOOLEAN, close : BOOLEAN] : n \in 1..MaxOperands}

\* The text of nums[k] op nums[k+1] op ... from operand k on.
RECURSIVE ExpressionText(_, _)
ExpressionText(in, k) ==
    LET sep == IF in.spaced THEN <<" ">> ELSE <<>>
    IN IF k = Len(in.nums) THEN in.nums[k]
       ELSE in.nums[k] \o sep \o <<in.ops[k]>> \o sep \o ExpressionText(in, k + 1)

MathMessageOf(in) ==
    (IF in.open THEN <<"(">> ELSE <<>>) \o ExpressionText(in, 1)
        \o (IF in.close THEN <<")">> ELSE <<>>)

NoOutcome == Returned(PluginFailure("", <<>>))

MathInit ==
    /\ mathInput \in MathInputs
    /\ mathMessage = MathMessageOf(mathInput)
    /\ mathOutcome = NoOutcome
    /\ mathPc = "start"

\* plugin.detectIntent(message)
MathDetect ==
    /\ mathPc = "start"
    /\ mathPc' = IF MathDetectIntent(mathMessage) THEN "detected" ELSE "skipped"
    /\ UNCHANGED <<mathInput, mathMessage, mathOutcome>>
    /\ UNCHANGED notMath

\* await plugin.execute(message): every throw inside is caught by execute.
MathRun ==
    /\ mathPc = "detected"
    /\ mathOutcome' = Returned(MathExecute(mathMessage))
    /\ mathPc' = "done"
    /\ UNCHANGED <<mathInput, mathMessage>>
    /\ UNCHANGED notMath

MathNext ==
    \/ MathDetect
    \/ MathRun

(***************************************************************************)
(* POST /agent/message up to the first statement of processMessage: the    *)
(* validation of the body, and for a body that passes, the append of the   *)
(* user message (the rest of processMessage is AgentNext).  A JSON value   *)
(* is its kind and, for a string or a number, its text.                    *)
(***************************************************************************)
Missing == [kind |-> "missing", value |-> <<>>]

NoSessionId == [kind |-> "missing", value |-> ""]

JsonString(v) == [kind |-> "string", value |-> v]

NoBody == [present |-> FALSE, session_id |-> NoSessionId, message |-> Missing]

SessionIdValues ==
    {NoSessionId, [kind |-> "number", value |-> "42"]}
        \cup {JsonString(v) : v \in {""} \cup SessionIds}

\* The length the other AgentRequestSchema of the sources allows a message;
\* the schema of types/agent, which the route imports, sets no maximum.
MessageLimit == 1000

LongMessage == [k \in 1..(MessageLimit + 1) |-> "a"]

MessageValues ==
    {Missing, [kind |-> "number", value |-> <<"4", "2">>], JsonString(<<>>),
     JsonString(MsgHello), JsonString(LongMessage)}

Bodies ==
    {NoBody} \cup [present : {TRUE}, session_id : SessionIdValues, message : MessageValues]

\* AgentRequestSchema.safeParse(body).success: both fields are strings of
\* length at least 1.
SchemaAccepts(body) ==
    /\ body.present
    /\ body.session_id.kind = "string"
    /\ body.session_id.value # ""
    /\ body.message.kind = "string"
    /\ Len(body.message.value) >= 1

\* request.body?.session_id || 'unknown'
SessionIdOrUnknown(body) ==
    IF body.present /\ body.session_id.kind # "missing" /\ body.session_id.value # ""
      THEN body.session_id.value
      ELSE "unknown"

\* sendAgentError
AgentError(statusCode, message, sessionId) ==
    [status |-> statusCode, reply |-> message, used_chunks |-> <<>>,
     plugins_used |-> <<>>, memory_snapshot |-> <<>>, session_id |-> sessionId]

\* The memory the request finds: nothing yet, or a session with a message.
RouteInit ==
    /\ rtBody \in Bodies
    /\ rtReply = NoReply
    /\ rtPc = "received"
    /\ maxMessages \in 1..MaxM
    /\ now = 0
    /\ memResult = NoResult
    /\ \E earlier \in BOOLEAN :
          /\ nextId = IF earlier THEN 1 ELSE 0
          /\ sessions = IF earlier
                          THEN AddMessageTo(EmptyMap, "s1", "user", MsgHello, 1, 0,
                                            maxMessages)
                          ELSE EmptyMap
          /\ appendLog = IF earlier
                           THEN LogAppend(EmptyMap, "s1",
                                          MemoryMessage(1, "user", MsgHello, 0))
                           ELSE EmptyMap

\* The validation branch with the user message appended before the reply.
RouteRejectAfterAppend ==
    /\ rtPc = "received"
    /\ ~SchemaAccepts(rtBody)
    /\ rtReply' = AgentError(400, <<"Invalid request body">>, SessionIdOrUnknown(rtBody))
    /\ rtPc' = "rejected"
    /\ sessions' = AddMessageTo(sessions, SessionIdOrUnknown(rtBody), "user",
                                rtBody.message.value, nextId + 1, now, maxMessages)
    /\ nextId' = nextId + 1
    /\ UNCHANGED <<rtBody, maxMessages, now, appendLog, memResult>>
    /\ UNCHANGED notRoute

\* if (!validation.success) return handleValidationError(...)
RouteReject ==
    /\ rtPc = "received"
    /\ ~SchemaAccepts(rtBody)
    /\ rtReply' = AgentError(400, <<"Invalid request body">>, SessionIdOrUnknown(rtBody))
    /\ rtPc' = "rejected"
    /\ UNCHANGED <<rtBody, memVars>>
    /\ UNCHANGED notRoute

\* The body passes: the service is made and initialized (neither touches the
\* memory) and processMessage is called.
RouteAccept ==
    /\ rtPc = "received"
    /\ SchemaAccepts(rtBody)
    /\ rtPc' = "accepted"
    /\ UNCHANGED <<rtBody, rtReply, memVars>>
    /\ UNCHANGED notRoute

\* 1. await this.memoryService.addMessage(sessionId, 'user', message)
RouteAppendUser ==
    /\ rtPc = "accepted"
    /\ sessions' = AddMessageTo(sessions, rtBody.session_id.value, "user",
                                rtBody.message.value, nextId + 1, now, maxMessages)
    /\ appendLog' = LogAppend(appendLog, rtBody.session_id.value,
                              MemoryMessage(nextId + 1, "user", rtBody.message.value, now))
    /\ nextId' = nextId + 1
    /\ rtPc' = "processing"
    /\ UNCHANGED <<rtBody, rtReply, maxMessages, now, memResult>>
    /\ UNCHANGED notRoute

RouteNext ==
    \/ RouteReject
    \/ RouteAccept
    \/ RouteAppendUser

(***************************************************************************)
(* One request with its failures: the body may fail validation, and a call *)
(* of the memory service inside processMessage may throw.  The route       *)
(* answers a throw with sendAgentError; AgentService, called directly,     *)
(* throws its AgentError to the caller.                                    *)
(***************************************************************************)
\* An error body that names only the error.
ErrorResponseBare(message, sessionId) == [error |-> message]

\* errorResponse of sendAgentError
ErrorResponse(message, sessionId) ==
    [reply |-> message, used_chunks |-> <<>>, plugins_used |-> <<>>,
     memory_snapshot |-> <<>>, session_id |-> sessionId]

ProcessingErrorText == <<"Sorry, I encountered an error processing your message.">>

\* The positions at which processMessage awaits the memory service.
MemoryCallPcs == {"start", "summary", "appendAssistant", "respond"}

\* The memory after an earlier request for "s1" that completed at time 0.
EarlierSessions(m) ==
    AddMessageTo(AddMessageTo(EmptyMap, "s1", "user", MsgHello, 1, 0, m),
                 "s1", "assistant", <<"Here is what I found.">>, 2, 0, m)

EarlierLog ==
    LogAppend(LogAppend(EmptyMap, "s1", MemoryMessage(1, "user", MsgHello, 0)),
              "s1", MemoryMessage(2, "assistant", <<"Here is what I found.">>, 0))

\* One request arrives at a fresh service, or a minute after an earlier
\* request for another or the same session has completed.
RequestInit ==
    /\ maxMessages \in 0..MaxM
    /\ \/ sessions = EmptyMap /\ nextId = 0 /\ now = 0 /\ appendLog = EmptyMap
       \/ /\ sessions = EarlierSessions(maxMessages)
          /\ nextId = 2
          /\ now = 1
          /\ appendLog = EarlierLog
    /\ memResult = NoResult
    /\ reqs = [r \in ReqIds |-> IdleReq]
    /\ running = "none"
    /\ index \in IndexChoices
    /\ arrivals = MaxArrivals - 1

\* if (!validation.success) return handleValidationError(...)
Reject(r) ==
    /\ running = "none"
    /\ Free(r)
    /\ r = "r1" \/ ~Free("r1")
    /\ arrivals < MaxArrivals
    /\ \E body \in Bodies :
          /\ ~SchemaAccepts(body)
          /\ reqs' = [reqs EXCEPT ![r] =
                         [IdleReq EXCEPT
                             !.pc = "rejected", !.via = "endpoint",
                             !.sessionId = SessionIdOrUnknown(body),
                             !.status = 400,
                             !.response = ErrorResponse(<<"Invalid request body">>,
                                                        SessionIdOrUnknown(body))]]
    /\ arrivals' = arrivals + 1
    /\ UNCHANGED <<running, index, memVars>>
    /\ UNCHANGED notAgent

\* A throw that the request swallows: it goes on to the prompt.
MemoryCallFailsSoftly(r) ==
    /\ running = r
    /\ reqs[r].pc \in MemoryCallPcs
    /\ reqs' = [reqs EXCEPT ![r].pc = "prompt", ![r].stages = Stage(r, "threw")]
    /\ UNCHANGED <<running, index, arrivals, memVars>>
    /\ UNCHANGED notAgent

\* The awaited memory call throws: processMessage's catch rethrows, and the
\* route's catch sends the error response (the direct caller gets the throw).
MemoryCallFails(r) ==
    /\ running = r
    /\ reqs[r].pc \in MemoryCallPcs
    /\ reqs' = [reqs EXCEPT
                   ![r].pc = "failed",
                   ![r].stages = Stage(r, "threw"),
                   ![r].status = IF reqs[r].via = "endpoint" THEN 500 ELSE 0,
                   ![r].response = IF reqs[r].via = "endpoint"
                                     THEN ErrorResponse(ProcessingErrorText,
                                                        reqs[r].sessionId)
                                     ELSE NoResponse]
    /\ running' = "none"
    /\ UNCHANGED <<index, arrivals, memVars>>
    /\ UNCHANGED notAgent

RequestNext ==
    \E r \in ReqIds :
        \/ Arrive(r)
        \/ Reject(r)
        \/ AppendUser(r)
        \/ Summarize(r)
        \/ PluginsStart(r)
        \/ PluginsDone(r)
        \/ SearchStart(r)
        \/ SearchDone(r)
        \/ PromptBuild(r)
        \/ GenerateStart(r)
        \/ GenerateDone(r)
        \/ AppendAssistant(r)
        \/ Respond(r)
        \/ MemoryCallFails(r)

(***************************************************************************)
(* AgentService.buildPrompt on its own: one call with its four arguments.  *)
(***************************************************************************)
PromptMessages == {<<>>, <<"h", "i">>}

PromptSummaries ==
    {<<"No previous conversation history.">>,
     <<"Previous conversation (last ", "1", " messages):\n", "user", ": ", "h", "i">>}

\* performRAGSearch's mapped results: none, one, two
PromptRagChoices ==
    {UsedChunks(BackendSearch(<<HitHigh, HitLow>>, n)) : n \in 0..2}

PromptOutcomes ==
    {PluginSuccess("weather", [NoData EXCEPT !.kind = "weather",
                                            !.location = <<"O", "s", "l", "o">>]),
     PluginSuccess("math", [NoData EXCEPT !.kind = "math",
                                         !.expression = <<"2", "+", "2">>,
                                         !.result = <<4, 1>>]),
     PluginFailure("weather", <<"Weather API error">>),
     PluginFailure("math", <<"Invalid mathematical expression">>)}

\* pluginResults: no outcome, one, or two
PromptPluginChoices ==
    {<<>>} \cup {<<a>> : a \in PromptOutcomes}
           \cup {<<a, b>> : a \in PromptOutcomes, b \in PromptOutcomes}

NoPrompt == <<"(no prompt)">>

PromptInit ==
    /\ ppInput \in [message : PromptMessages, memorySummary : PromptSummaries,
                    ragResults : PromptRagChoices,
                    pluginResults : PromptPluginChoices]
    /\ ppPrompt = NoPrompt
    /\ ppPc = "call"

BuildPromptCall ==
    /\ ppPc = "call"
    /\ ppPrompt' = BuildPrompt(ppInput.message, ppInput.memorySummary,
                               ppInput.ragResults, ppInput.pluginResults)
    /\ ppPc' = "returned"
    /\ UNCHANGED <<ppInput, notPrompt>>

PromptNext == BuildPromptCall

(***************************************************************************)
(* The overlapping splitters: SimpleDocumentProcessor.simpleSplitIntoChunks *)
(* and DocumentProcessor.splitIntoChunks.  They differ in how the content  *)
(* is cut into words; the loop is the same.                                *)
(***************************************************************************)
MaxSplitTokens == 2

\* The number of chunks the model records; a call that pushes more keeps
\* running, and only the parity of its passes changes.
MaxSplitChunks == 4

\* String.prototype.split(' ')
RECURSIVE SplitSpaceFrom(_, _, _)
SplitSpaceFrom(s, i, cur) ==
    IF i > Len(s) THEN <<cur>>
    ELSE IF s[i] = " " THEN <<cur>> \o SplitSpaceFrom(s, i + 1, <<>>)
    ELSE SplitSpaceFrom(s, i + 1, Append(cur, s[i]))

SplitSpace(s) == SplitSpaceFrom(s, 1, <<>>)

\* const words = content.split(' ')  /  content.split(/\s+/)
SplitterWords(kind, text) ==
    IF kind = "simple" THEN SplitSpace(text) ELSE SplitWs(text)

SplitKinds == {"simple", "document"}

SplitInit ==
    /\ spKind \in SplitKinds
    /\ spContent \in TextsUpTo(MaxDocLen)
    /\ spMaxTokens \in 1..MaxSplitTokens
    /\ spOverlap \in 0..(spMaxTokens - 1)
    /\ spWords = <<>>
    /\ spStart = 0
    /\ spChunks = <<>>
    /\ spPc = "call"
    /\ spPass = 0

\* const words = ...; if (words.length <= maxTokens) return [content];
\* let startIndex = 0;
SplitEnter ==
    /\ spPc = "call"
    /\ LET ws == SplitterWords(spKind, spContent)
       IN /\ spWords' = ws
          /\ IF Len(ws) <= spMaxTokens
               THEN spChunks' = <<spContent>> /\ spPc' = "returned"
               ELSE spChunks' = <<>> /\ spPc' = "loop"
    /\ UNCHANGED <<spKind, spContent, spMaxTokens, spOverlap, spStart, spPass, notSplit>>

\* startIndex = endIndex - overlap
NextStart(endIndex, overlap) == endIndex - overlap

\* One pass of while (startIndex < words.length) { ... }
SplitPass ==
    /\ spPc = "loop"
    /\ spStart < Len(spWords)
    /\ LET endIndex == Min(spStart + spMaxTokens, Len(spWords))
           chunk == JoinSpace(Slice(spWords, spStart, endIndex))
           start == NextStart(endIndex, spOverlap)
       IN /\ spChunks' = IF Len(spChunks) < MaxSplitChunks
                           THEN Append(spChunks, chunk) ELSE spChunks
          /\ spStart' = start
          \* if (startIndex >= words.length) break; the while test is the same
          /\ spPc' = IF start >= Len(spWords) THEN "returned" ELSE "loop"
    /\ spPass' = 1 - spPass
    /\ UNCHANGED <<spKind, spContent, spMaxTokens, spOverlap, spWords, notSplit>>

SplitNext == SplitEnter \/ SplitPass

(***************************************************************************)
(* MemoryVectorStore.addChunks.  A chunk is the number it was added as.    *)
(***************************************************************************)
MaxStoreChunks == 1000

MaxAddCalls == 4

\* The batch sizes tried: one chunk, under half the limit, over half, over
\* the limit.
StoreBatchSizes == {1, 400, 600, 1100}

\* slice(-n) for n > 0
LastOf(a, n) == IF n >= Len(a) THEN a ELSE SubSeq(a, Len(a) - n + 1, Len(a))

\* this.chunks.slice(-maxChunks / 2)
TrimRecent(chunks) == LastOf(chunks, MaxStoreChunks \div 2)

StoreInit ==
    /\ vsChunks = <<>>
    /\ vsAdded = 0
    /\ vsCalls = 0

AddChunks ==
    /\ vsCalls < MaxAddCalls
    /\ \E size \in StoreBatchSizes :
          LET incoming == [k \in 1..size |-> vsAdded + k]
              kept == IF Len(vsChunks) + size > MaxStoreChunks
                        THEN TrimRecent(vsChunks) ELSE vsChunks
          IN /\ vsChunks' = kept \o incoming
             /\ vsAdded' = vsAdded + size
    /\ vsCalls' = vsCalls + 1
    /\ UNCHANGED notStore

StoreNext == AddChunks

(***************************************************************************)
(* The specifications.  Each part of the program is checked on its own;    *)
(* the variables of the other parts rest.                                  *)
(***************************************************************************)
StreamIdle ==
    /\ content = <<>>
    /\ chunkSize = 1
    /\ batchSize = 1
    /\ words = <<>>
    /\ startIndex = 0
    /\ batch = <<>>
    /\ chunkIndex = 0
    /\ yielded = <<>>
    /\ spc = "idle"
    /\ pass = 0

PmIdle ==
    /\ pmPlugins = <<>>
    /\ pmMessage = <<>>
    /\ pmIdx = 1
    /\ pmResults = <<>>
    /\ pmReturned = <<>>
    /\ pmPc = "idle"

MemIdle ==
    /\ maxMessages = 10
    /\ sessions = EmptyMap
    /\ nextId = 0
    /\ now = 0
    /\ appendLog = EmptyMap
    /\ memResult = NoResult

AgentIdle ==
    /\ reqs = [r \in ReqIds |-> IdleReq]
    /\ running = "none"
    /\ index = <<>>
    /\ arrivals = 0

IngestIdle ==
    /\ igListing = <<>>
    /\ igChunkSize = 1
    /\ igFiles = <<>>
    /\ igFileIdx = 0
    /\ igPending = <<>>
    /\ igBatchNumber = 0
    /\ igFileChunks = 0
    /\ igTotalChunks = 0
    /\ igStore = <<>>
    /\ igHanded = <<>>
    /\ igFailedFiles = <<>>
    /\ igPc = "idle"
    /\ igReply = NoReply

SearchIdle ==
    /\ srIndex = <<>>
    /\ srLimit = 1
    /\ srThreshold = 0
    /\ srResult = <<>>
    /\ srPc = "idle"

MathIdle ==
    /\ mathInput = <<>>
    /\ mathMessage = <<>>
    /\ mathOutcome = NoOutcome
    /\ mathPc = "idle"

RouteIdle ==
    /\ rtBody = NoBody
    /\ rtReply = NoReply
    /\ rtPc = "idle"

PromptIdle ==
    /\ ppInput = [message |-> <<>>, memorySummary |-> <<>>, ragResults |-> <<>>,
                  pluginResults |-> <<>>]
    /\ ppPrompt = NoPrompt
    /\ ppPc = "idle"

SplitIdle ==
    /\ spKind = "simple"
    /\ spContent = <<>>
    /\ spMaxTokens = 1
    /\ spOverlap = 0
    /\ spWords = <<>>
    /\ spStart = 0
    /\ spChunks = <<>>
    /\ spPc = "idle"
    /\ spPass = 0

StoreIdle ==
    /\ vsChunks = <<>>
    /\ vsAdded = 0
    /\ vsCalls = MaxAddCalls

RestIdle == PromptIdle /\ SplitIdle /\ StoreIdle



SpecStreamInit ==
    StreamInit /\ PmIdle /\ MemIdle /\ AgentIdle /\ IngestIdle /\ SearchIdle /\ MathIdle /\ RouteIdle /\ RestIdle

SpecStream == SpecStreamInit /\ [][StreamNext]_vars

\* The consumer's for-await loop keeps asking for the next batch and the
\* generator's body keeps running: a step that can be taken is taken.
SpecStreamFair == SpecStream /\ WF_vars(StreamNext)

SpecPluginsInit ==
    PmInit /\ StreamIdle /\ MemIdle /\ AgentIdle /\ IngestIdle /\ SearchIdle /\ MathIdle /\ RouteIdle /\ RestIdle

SpecPlugins == SpecPluginsInit /\ [][PmNext]_vars

SpecMemoryInit ==
    MemInit /\ StreamIdle /\ PmIdle /\ AgentIdle /\ IngestIdle /\ SearchIdle /\ MathIdle /\ RouteIdle /\ RestIdle

SpecMemory == SpecMemoryInit /\ [][MemNext]_vars

SpecInit == AgentInit /\ StreamIdle /\ PmIdle /\ IngestIdle /\ SearchIdle /\ MathIdle /\ RouteIdle /\ RestIdle

Spec == SpecInit /\ [][AgentNext]_vars

SpecIngestInit ==
    IngestInit /\ StreamIdle /\ PmIdle /\ MemIdle /\ AgentIdle /\ SearchIdle /\ MathIdle /\ RouteIdle /\ RestIdle

SpecIngest == SpecIngestInit /\ [][IngestNext]_vars

SpecSearchInit ==
    SearchInit /\ StreamIdle /\ PmIdle /\ MemIdle /\ AgentIdle /\ IngestIdle /\ MathIdle /\ RouteIdle /\ RestIdle

SpecSearch == SpecSearchInit /\ [][SearchNext]_vars

SpecMathInit ==
    MathInit /\ StreamIdle /\ PmIdle /\ MemIdle /\ AgentIdle /\ IngestIdle /\ SearchIdle
        /\ RouteIdle /\ RestIdle

SpecMath == SpecMathInit /\ [][MathNext]_vars

SpecRouteInit ==
    RouteInit /\ StreamIdle /\ PmIdle /\ AgentIdle /\ IngestIdle /\ SearchIdle /\ MathIdle /\ RestIdle

SpecRoute == SpecRouteInit /\ [][RouteNext]_vars

SpecRequestInit ==
    RequestInit /\ StreamIdle /\ PmIdle /\ IngestIdle /\ SearchIdle /\ MathIdle /\ RouteIdle /\ RestIdle

SpecRequest == SpecRequestInit /\ [][RequestNext]_vars

SpecPromptInit ==
    PromptInit /\ StreamIdle /\ PmIdle /\ MemIdle /\ AgentIdle /\ IngestIdle
        /\ SearchIdle /\ MathIdle /\ RouteIdle /\ SplitIdle /\ StoreIdle

SpecPrompt == SpecPromptInit /\ [][PromptNext]_vars

SpecSplitInit ==
    SplitInit /\ StreamIdle /\ PmIdle /\ MemIdle /\ AgentIdle /\ IngestIdle
        /\ SearchIdle /\ MathIdle /\ RouteIdle /\ PromptIdle /\ StoreIdle

SpecSplit == SpecSplitInit /\ [][SplitNext]_vars

\* The call runs to its end unless it never ends: a pass that can be taken is taken.
SpecSplitFair == SpecSplit /\ WF_vars(SplitNext)

SpecStoreInit ==
    StoreInit /\ StreamIdle /\ PmIdle /\ MemIdle /\ AgentIdle /\ IngestIdle
        /\ SearchIdle /\ MathIdle /\ RouteIdle /\ PromptIdle /\ SplitIdle

SpecStore == SpecStoreInit /\ [][StoreNext]_vars


(***************************************************************************)
(* Properties of streamChunksFromFile.                                     *)
(***************************************************************************)
\* The whitespace-delimited tokens of a text: its maximal runs of
\* non-whitespace characters, in order.
RECURSIVE SkipNonWs(_, _)
SkipNonWs(s, i) ==
    IF i > Len(s) \/ IsWs(s[i]) THEN i ELSE SkipNonWs(s, i + 1)

RECURSIVE TokensFrom(_, _)
TokensFrom(s, i) ==
    LET b == SkipWs(s, i)
    IN IF b > Len(s) THEN <<>>
       ELSE LET e == SkipNonWs(s, b)
            IN <<SubSeq(s, b, e - 1)>> \o TokensFrom(s, e)

TokensOf(s) == TokensFrom(s, 1)

Ceil(a, b) == (a + b - 1) \div b

RECURSIVE Flatten(_)
Flatten(bs) == IF bs = <<>> THEN <<>> ELSE Head(bs) \o Flatten(Tail(bs))

ChunkContents(cs) == [k \in 1..Len(cs) |-> cs[k].content]

StreamDone == spc = "done"

\* C7: every yielded batch is non-empty and holds at most batchSize chunks;
\* every batch but the last holds exactly batchSize; the pending batch never
\* exceeds batchSize; and when the generator has finished, every chunk built
\* was yielded exactly once (the trailing partial batch included) with at
\* most one partial batch, the last.
C7_BatchesBounded ==
    /\ Len(batch) <= batchSize
    /\ \A k \in 1..Len(yielded) :
          /\ Len(yielded[k]) >= 1
          /\ Len(yielded[k]) <= batchSize
          /\ k < Len(yielded) => Len(yielded[k]) = batchSize
    /\ spc \in {"loop", "yield"} =>
          \A k \in 1..Len(yielded) : Len(yielded[k]) = batchSize
    /\ StreamDone =>
          LET chunks == Flatten(yielded)
          IN /\ Len(chunks) = chunkIndex
             /\ \A k \in 1..Len(chunks) : chunks[k].chunkIndex = k - 1

C7_Witness ==
    /\ StreamDone
    /\ Len(yielded) >= 2
    /\ Len(yielded[Len(yielded)]) < batchSize

\* C8: for a document of N tokens, window W >= 1 and batch size B, the
\* finished generator has yielded ceil(N/W) chunks in ceil(ceil(N/W)/B)
\* batches, each chunk holding at most W tokens.
C8_ChunkCount ==
    (StreamDone /\ chunkSize >= 1) =>
        LET n == Len(TokensOf(content))
            chunks == Flatten(yielded)
        IN /\ Len(chunks) = Ceil(n, chunkSize)
           /\ Len(yielded) = Ceil(Ceil(n, chunkSize), batchSize)
           /\ \A k \in 1..Len(chunks) :
                 Len(TokensOf(chunks[k].content)) <= chunkSize

C10_Terminates == <>(spc \in {"done", "error"})

(***************************************************************************)
(* Properties of the plugin manager.                                       *)
(***************************************************************************)
\* The positions in the registry of the handlers whose detectIntent answers
\* true for the message.
MatchingPositions(plugins, message) ==
    {k \in 1..Len(plugins) : PluginDetectIntent(plugins[k], message)}

\* The j-th smallest element of a finite set of numbers.
RECURSIVE NthSmallest(_, _)
NthSmallest(S, j) ==
    LET m == CHOOSE x \in S : \A y \in S : x <= y
    IN IF j = 1 THEN m ELSE NthSmallest(S \ {m}, j - 1)

\* C6: the list detectAndExecutePlugins returns holds exactly one outcome per
\* handler whose detectIntent is true, in registration order, and none for
\* the others; the outcome of a handler that throws is a failure carrying
\* the error's message, and the handlers after it still contribute theirs.
C6_OneOutcomePerMatch ==
    pmPc = "done" =>
        LET pos == MatchingPositions(pmPlugins, pmMessage)
        IN /\ Len(pmReturned) = Cardinality(pos)
           /\ \A j \in 1..Len(pmReturned) :
                 LET p == pmPlugins[NthSmallest(pos, j)]
                     r == PluginExecute(p, pmMessage)
                 IN /\ pmReturned[j].name = p.name
                    /\ r.threw =>
                          /\ pmReturned[j].success = FALSE
                          /\ pmReturned[j].error # <<>>
                          /\ p.behaviour = "throw" => pmReturned[j].error = r.message
                    /\ ~r.threw => pmReturned[j] = r.result

\* Two handlers match, the first of them throws, and the dispatch returned.
C6_Witness ==
    /\ pmPc = "done"
    /\ Len(pmReturned) = 2
    /\ \E j, k \in MatchingPositions(pmPlugins, pmMessage) :
          /\ j < k
          /\ PluginExecute(pmPlugins[j], pmMessage).threw
          /\ ~PluginExecute(pmPlugins[k], pmMessage).threw

(***************************************************************************)
(* Properties of the memory service.                                       *)
(***************************************************************************)
\* C1: every session holds at most M messages, and they are the most
\* recently appended min(total, M) messages, in the order they were appended.
C1_BoundedRecent ==
    \A sid \in DOMAIN sessions :
        LET held == sessions[sid].messages
            log == appendLog[sid]
            keep == Min(Len(log), maxMessages)
        IN /\ Len(held) <= maxMessages
           /\ held = SubSeq(log, Len(log) - keep + 1, Len(log))

(***************************************************************************)
(* Properties of the agent pipeline.                                       *)
(***************************************************************************)
IsPrefix(a, b) == Len(a) <= Len(b) /\ a = SubSeq(b, 1, Len(a))

\* The stages of processMessage in the order the code runs them;
\* SimpleAgentService has no plugin stage.
StageOrder(svc) ==
    IF svc = "agent"
      THEN <<"appendUser", "summary", "pluginsStart", "pluginsDone", "searchStart",
             "searchDone", "promptBuilt", "generateStart", "generated",
             "appendAssistant", "responseBuilt">>
      ELSE <<"appendUser", "summary", "searchStart", "searchDone", "promptBuilt",
             "generateStart", "generated", "appendAssistant", "responseBuilt">>

Started(r, stage) == \E k \in 1..Len(reqs[r].stages) : reqs[r].stages[k] = stage

\* The session log holds a message with this id, role and content.
Logged(sessionId, id, role, text) ==
    /\ sessionId \in DOMAIN appendLog
    /\ \E k \in 1..Len(appendLog[sessionId]) :
          /\ appendLog[sessionId][k].id = id
          /\ appendLog[sessionId][k].role = role
          /\ appendLog[sessionId][k].content = text

\* The newest message the session holds has this id, role and content.
NewestInMemory(sessionId, id, role, text) ==
    /\ sessionId \in DOMAIN sessions
    /\ Len(sessions[sessionId].messages) >= 1
    /\ LET last == sessions[sessionId].messages[Len(sessions[sessionId].messages)]
       IN last.id = id /\ last.role = role /\ last.content = text

\* C2: within one request the stages run in the fixed order (append user
\* message, plugin dispatch and retrieval, prompt build, generation, append
\* assistant message, response assembly); the user message has been appended
\* when plugin dispatch or retrieval starts, and is the newest in memory when
\* the first of the two starts;
\* plugin dispatch and retrieval have finished when the prompt is built; the
\* assistant message has been appended, and is the newest in memory, when the
\* response is assembled.
C2_StagesInOrder ==
    \A r \in ReqIds :
        /\ IsPrefix(reqs[r].stages, StageOrder(reqs[r].svc))
        /\ (Started(r, "pluginsStart") \/ Started(r, "searchStart")) =>
              Logged(reqs[r].sessionId, reqs[r].userMsgId, "user", reqs[r].message)
        /\ (reqs[r].pc = "plugins" \/ (reqs[r].pc = "search" /\ reqs[r].svc = "simple")) =>
              NewestInMemory(reqs[r].sessionId, reqs[r].userMsgId, "user",
                             reqs[r].message)
        /\ Started(r, "promptBuilt") =>
              /\ Started(r, "searchDone")
              /\ reqs[r].svc = "agent" => Started(r, "pluginsDone")
        /\ reqs[r].pc = "respond" =>
              NewestInMemory(reqs[r].sessionId, reqs[r].asstMsgId, "assistant",
                             reqs[r].aiResponse)
        /\ Started(r, "responseBuilt") =>
              Logged(reqs[r].sessionId, reqs[r].asstMsgId, "assistant",
                     reqs[r].response.reply)

C2_Witness ==
    \E r \in ReqIds :
        /\ reqs[r].pc = "done"
        /\ reqs[r].svc = "agent"
        /\ reqs[r].stages = StageOrder("agent")
        /\ reqs[r].pluginResults # <<>>
        /\ reqs[r].ragResults # <<>>
        /\ \E q \in ReqIds : q # r /\ reqs[q].pc = "done" /\ reqs[q].svc = "simple"

\* C3: a request whose language-model call failed still completes: its reply
\* is the fallback text, not empty and containing the user's message; that
\* text was appended to the session as an assistant message; and the
\* response's memory_snapshot contains it.
C3_FallbackOnFailure ==
    \A r \in ReqIds :
        reqs[r].llmFailed =>
            /\ reqs[r].pc \in {"appendAssistant", "respond", "done"}
            /\ reqs[r].aiResponse # <<>>
            /\ ContainsText(reqs[r].aiResponse, reqs[r].message)
            /\ reqs[r].pc = "done" =>
                  /\ reqs[r].response.reply = reqs[r].aiResponse
                  /\ Logged(reqs[r].sessionId, reqs[r].asstMsgId, "assistant",
                            reqs[r].response.reply)
                  /\ \E k \in 1..Len(reqs[r].response.memory_snapshot) :
                        /\ reqs[r].response.memory_snapshot[k].role = "assistant"
                        /\ reqs[r].response.memory_snapshot[k].content
                               = reqs[r].response.reply
                        /\ reqs[r].snapshotIds[k] = reqs[r].asstMsgId

C3_Witness ==
    \E r \in ReqIds :
        /\ reqs[r].pc = "done"
        /\ reqs[r].llmFailed
        /\ reqs[r].message = MsgMath

\* The snapshot of a finished request ends with the request's own assistant
\* reply.
SnapshotEndsWithReply(r) ==
    LET snap == reqs[r].response.memory_snapshot
        n == Len(snap)
    IN /\ n >= 1
       /\ reqs[r].snapshotIds[n] = reqs[r].asstMsgId
       /\ snap[n].role = "assistant"
       /\ snap[n].content = reqs[r].response.reply

\* ... and the entry before it is the request's own user message.
SnapshotReplyFollowsMessage(r) ==
    LET snap == reqs[r].response.memory_snapshot
        n == Len(snap)
    IN /\ n >= 2
       /\ reqs[r].snapshotIds[n - 1] = reqs[r].userMsgId
       /\ snap[n - 1].role = "user"
       /\ snap[n - 1].content = reqs[r].message

\* Nothing was appended to the request's session between its two appends.
AppendsAdjacent(r) ==
    /\ reqs[r].sessionId \in DOMAIN appendLog
    /\ \E k \in 1..(Len(appendLog[reqs[r].sessionId]) - 1) :
          /\ appendLog[reqs[r].sessionId][k].id = reqs[r].userMsgId
          /\ appendLog[reqs[r].sessionId][k + 1].id = reqs[r].asstMsgId

\* C4 as stated: the memory_snapshot of every request that completes ends
\* with that request's user message immediately followed by that request's
\* assistant reply.
C4_SnapshotEndsWithExchange ==
    \A r \in ReqIds :
        reqs[r].pc = "done" =>
            SnapshotEndsWithReply(r) /\ SnapshotReplyFollowsMessage(r)

\* C4 amended: the memory_snapshot of every request that completes ends with
\* that request's assistant reply; the entry before it is that request's user
\* message when the configured maximum is not 1 and no other message was
\* appended to the session between the request's two appends.
C4_SnapshotEndsWithReply ==
    \A r \in ReqIds :
        reqs[r].pc = "done" =>
            /\ SnapshotEndsWithReply(r)
            /\ (maxMessages # 1 /\ AppendsAdjacent(r)) => SnapshotReplyFollowsMessage(r)

C4_Witness ==
    \E r \in ReqIds :
        /\ reqs[r].pc = "done"
        /\ maxMessages = 2
        /\ AppendsAdjacent(r)
        /\ Len(appendLog[reqs[r].sessionId]) >= 4
        /\ \E q \in ReqIds : q # r /\ reqs[q].pc = "done" /\ ~AppendsAdjacent(q)

\* C5: a request sent to the message endpoint whose message is "What is
\* 4*3?", with no matching documents in the index, gets a response whose
\* plugins_used holds a successful math outcome with result 12 and whose
\* used_chunks is empty.
C5_EndpointMathOutcome ==
    \A r \in ReqIds :
        (/\ reqs[r].pc = "done"
         /\ reqs[r].via = "endpoint"
         /\ reqs[r].message = MsgMath
         /\ index = <<>>) =>
            /\ reqs[r].response.used_chunks = <<>>
            /\ \E k \in 1..Len(reqs[r].response.plugins_used) :
                  /\ reqs[r].response.plugins_used[k].name = "math"
                  /\ reqs[r].response.plugins_used[k].success
                  /\ reqs[r].response.plugins_used[k].data.result = <<12, 1>>

\* The same request given to AgentService.processMessage does get it.
C5_DirectMathOutcome ==
    \A r \in ReqIds :
        (/\ reqs[r].pc = "done"
         /\ reqs[r].via = "direct"
         /\ reqs[r].message = MsgMath
         /\ index = <<>>) =>
            /\ reqs[r].response.used_chunks = <<>>
            /\ \E k \in 1..Len(reqs[r].response.plugins_used) :
                  /\ reqs[r].response.plugins_used[k].name = "math"
                  /\ reqs[r].response.plugins_used[k].success
                  /\ reqs[r].response.plugins_used[k].data.result = <<12, 1>>

(***************************************************************************)
(* Properties of the ingestion.                                            *)
(***************************************************************************)
IngestOver == igPc \in {"returned", "replied"}

\* The batches handed to the sink for a file, in order.
HandedFor(name) ==
    LET of == SelectSeq(igHanded, LAMBDA h : h.file = name)
    IN [k \in 1..Len(of) |-> of[k].batch]

\* The chunks of the batches the sink accepted, in order.
RECURSIVE AcceptedChunks(_)
AcceptedChunks(hs) ==
    IF hs = <<>> THEN <<>>
    ELSE (IF Head(hs).accepted THEN Head(hs).batch ELSE <<>>) \o AcceptedChunks(Tail(hs))

\* Every batch the readable files among fs yield, file by file.
RECURSIVE AllBatches(_, _)
AllBatches(fs, size) ==
    IF fs = <<>> THEN <<>>
    ELSE (IF Head(fs).readable THEN FileBatches(Head(fs), size) ELSE <<>>)
           \o AllBatches(Tail(fs), size)

\* C11: a file that cannot be read aborts only itself: the call throws only
\* when the directory cannot be listed; when it is over, every readable file
\* has had all its batches handed to the sink, whatever happened to the other
\* files; and what the sink accepted stays indexed and counted throughout.
C11_FileFailureIsolated ==
    /\ igPc = "threw" => igFileIdx = 0
    /\ igStore = AcceptedChunks(igHanded)
    /\ igTotalChunks = Len(igStore)
    /\ IngestOver =>
          \A k \in 1..Len(igFiles) :
              IF igFiles[k].readable
                THEN HandedFor(igFiles[k].name) = FileBatches(igFiles[k], igChunkSize)
                ELSE /\ HandedFor(igFiles[k].name) = <<>>
                     /\ \E j \in 1..Len(igFailedFiles) :
                           igFailedFiles[j] = igFiles[k].name

C11_Witness ==
    /\ igPc = "replied"
    /\ Len(igFiles) = 3
    /\ igFiles[1].readable /\ ~igFiles[2].readable /\ igFiles[3].readable
    /\ \E i, j \in 1..Len(igHanded) :
          /\ igHanded[i].file = igFiles[1].name /\ igHanded[i].accepted
          /\ igHanded[j].file = igFiles[3].name /\ igHanded[j].accepted

\* The number of chunks in the accepted batches of a file.
AcceptedCount(hs) == Len(AcceptedChunks(hs))

\* C12: a batch the sink refuses stops nothing: the batches handed to the
\* sink are always the first so many of all the batches of the readable
\* files, and all of them when the call is over; the totals count exactly
\* the chunks of the batches the sink accepted.
C12_SinkFailureIsolated ==
    LET all == AllBatches(igFiles, igChunkSize)
        handed == [k \in 1..Len(igHanded) |-> igHanded[k].batch]
    IN /\ Len(handed) <= Len(all)
       /\ handed = SubSeq(all, 1, Len(handed))
       /\ IngestOver => handed = all
       /\ igTotalChunks = AcceptedCount(igHanded)
       /\ igPc = "batches" =>
             /\ igFileChunks = AcceptedCount(SelectSeq(igHanded,
                                   LAMBDA h : h.file = igFiles[igFileIdx].name))
             /\ igBatchNumber = Len(HandedFor(igFiles[igFileIdx].name))

C12_Witness ==
    /\ igPc = "replied"
    /\ \E i, j, k \in 1..Len(igHanded) :
          /\ i < j /\ j < k
          /\ ~igHanded[i].accepted
          /\ igHanded[j].accepted /\ igHanded[j].file = igHanded[i].file
          /\ igHanded[k].accepted /\ igHanded[k].file # igHanded[i].file
    /\ igTotalChunks < Len(AllBatches(igFiles, igChunkSize)) * IngestBatchSize

\* C13: the reply of the ingestion trigger carries the number of chunks
\* indexed, the number of files processed and the failed sources.
C13_ReportsOutcome ==
    igPc = "replied" =>
        /\ {"chunksIndexed", "filesProcessed", "failures"} \subseteq DOMAIN igReply
        /\ igReply.chunksIndexed = igTotalChunks
        /\ igReply.filesProcessed = Len(igFiles) - Len(igFailedFiles)
        /\ \A j \in 1..Len(igFailedFiles) :
              \E k \in 1..Len(igReply.failures) :
                  igReply.failures[k] = igFailedFiles[j]

(***************************************************************************)
(* Properties of the retrieval.                                            *)
(***************************************************************************)
\* The similarity of an object to the query, in hundredths.
SimilarityPct(obj) == 100 - obj.distance

\* What search should return: of the srLimit best objects, those whose
\* similarity is not below the threshold.
ExpectedResults ==
    LET best == SubSeq(srIndex, 1, Min(srLimit, Len(srIndex)))
        kept == SelectSeq(best, LAMBDA o : SimilarityPct(o) >= srThreshold)
    IN [k \in 1..Len(kept) |-> kept[k].content]

ReturnedResults == [k \in 1..Len(srResult) |-> srResult[k].content]

\* C14: search returns at most maxResults results, each scoring at least the
\* threshold, and a result is returned iff it is among the maxResults best
\* the backend holds and its score is not below the threshold.
C14_FilteredAndTruncated ==
    srPc = "returned" =>
        /\ Len(srResult) <= srLimit
        /\ \A k \in 1..Len(srResult) : srResult[k].score >= srThreshold
        /\ ReturnedResults = ExpectedResults

\* The same away from the one distance the score conversion mistakes: no
\* object at distance 0.
C14_AwayFromZeroDistance ==
    (srPc = "returned" /\ \A k \in 1..Len(srIndex) : srIndex[k].distance # 0) =>
        /\ Len(srResult) <= srLimit
        /\ \A k \in 1..Len(srResult) : srResult[k].score >= srThreshold
        /\ ReturnedResults = ExpectedResults

\* C15: the list search returns is in descending order of score.
C15_DescendingScore ==
    srPc = "returned" =>
        \A j, k \in 1..Len(srResult) :
            j < k => srResult[j].score >= srResult[k].score

\* C16: when the search backend fails for a request, the search gives the
\* request an empty list, and the request goes on through prompt build,
\* generation and the assistant append to a response whose used_chunks is
\* empty.
C16_SearchFailureTolerated ==
    \A r \in ReqIds :
        reqs[r].searchFailed =>
            /\ reqs[r].ragResults = <<>>
            /\ reqs[r].pc \in {"prompt", "generate", "llmWait", "appendAssistant",
                               "respond", "done"}
            /\ IsPrefix(<<"appendUser", "summary">>, reqs[r].stages)
            /\ reqs[r].pc = "done" =>
                  /\ reqs[r].stages = StageOrder(reqs[r].svc)
                  /\ reqs[r].response.used_chunks = <<>>
                  /\ reqs[r].response.reply = reqs[r].aiResponse
                  /\ reqs[r].response.reply # <<>>

C16_Witness ==
    /\ index # <<>>
    /\ \E r \in ReqIds :
          /\ reqs[r].pc = "done"
          /\ reqs[r].searchFailed
          /\ ~reqs[r].llmFailed
          /\ reqs[r].svc = "agent"
    /\ \E q \in ReqIds :
          /\ reqs[q].pc = "done"
          /\ ~reqs[q].searchFailed
          /\ reqs[q].response.used_chunks # <<>>

\* C17: cleanupOldSessions(t) deletes exactly the sessions whose last access is
\* strictly older than now - t minutes; a session last accessed at the cutoff
\* or after it stays, with all of its messages and fields.
C17_CleanupExact ==
    [][MemCleanupOldSessions =>
          LET cutoff == now - memResult'.maxAgeMinutes * 60 * 1000
          IN /\ DOMAIN sessions' =
                   {sid \in DOMAIN sessions : sessions[sid].lastAccessed >= cutoff}
             /\ \A sid \in DOMAIN sessions' : sessions'[sid] = sessions[sid]]_vars

\* A cleanup has just deleted a session and kept one last accessed exactly at
\* the cutoff, with its messages.
C17_Witness ==
    /\ memResult.op = "cleanupOldSessions"
    /\ memResult.cleaned >= 1
    /\ \E sid \in DOMAIN sessions :
          /\ sessions[sid].lastAccessed = now - memResult.maxAgeMinutes * MsPerMinute
          /\ sessions[sid].messages # <<>>

(***************************************************************************)
(* Properties of the math plugin.                                          *)
(***************************************************************************)
OperandValues(in) == [k \in 1..Len(in.nums) |-> NumVal(in.nums[k])]

\* The value of vals[1] op vals[2] op ... vals[k] when every operator is * or
\* /, from left to right.
RECURSIVE ProductValue(_, _, _)
ProductValue(vals, ops, k) ==
    IF k = 1 THEN Rat(vals[1], 1)
    ELSE IF ops[k - 1] = "*"
           THEN RatMul(ProductValue(vals, ops, k - 1), Rat(vals[k], 1))
           ELSE RatDiv(ProductValue(vals, ops, k - 1), Rat(vals[k], 1))

\* The value of the expression by the usual rules: it is split at its last +
\* or -, whose right side is a product and whose left side is valued the
\* same way.
RECURSIVE StandardValue(_, _)
StandardValue(vals, ops) ==
    LET adds == {k \in 1..Len(ops) : ops[k] \in {"+", "-"}}
    IN IF adds = {} THEN ProductValue(vals, ops, Len(vals))
       ELSE LET k == CHOOSE x \in adds : \A y \in adds : y <= x
                left == StandardValue(SubSeq(vals, 1, k), SubSeq(ops, 1, k - 1))
                right == ProductValue(SubSeq(vals, k + 1, Len(vals)),
                                      SubSeq(ops, k + 1, Len(ops)), Len(vals) - k)
            IN IF ops[k] = "+" THEN RatAdd(left, right) ELSE RatSub(left, right)

\* No operand that is divided by is zero.
HasValue(in) ==
    \A k \in 1..Len(in.ops) : in.ops[k] = "/" => NumVal(in.nums[k + 1]) # 0

PlainExpression(in) == ~in.open /\ ~in.close /\ Len(in.nums) >= 2

MathSucceededWith(q) ==
    /\ ~mathOutcome.threw
    /\ mathOutcome.result.success
    /\ mathOutcome.result.data.result = q

MathFailed ==
    /\ ~mathOutcome.threw
    /\ ~mathOutcome.result.success
    /\ mathOutcome.result.error # <<>>

\* C18: for a message that is an expression over integer operands and
\* + - * / (one that has a value), the math handler succeeds with the value
\* the expression has under standard precedence.
C18_StandardPrecedence ==
    (mathPc = "done" /\ PlainExpression(mathInput) /\ HasValue(mathInput)) =>
        MathSucceededWith(StandardValue(OperandValues(mathInput), mathInput.ops))

\* The same, for the expressions in which no operand that is divided by
\* begins with the digit 0.
MathNoZeroLedDivisor ==
    (/\ mathPc = "done"
     /\ PlainExpression(mathInput)
     /\ \A k \in 1..Len(mathInput.ops) :
            mathInput.ops[k] = "/" => mathInput.nums[k + 1][1] # "0") =>
        MathSucceededWith(StandardValue(OperandValues(mathInput), mathInput.ops))

DividesByLiteralZero(in) ==
    \E k \in 1..Len(in.ops) : in.ops[k] = "/" /\ in.nums[k + 1] = <<"0">>

UnbalancedParentheses(in) == in.open # in.close

\* C19: for a message whose expression divides by a literal zero or has
\* unbalanced parentheses, the math handler returns a failure with an error
\* message: no success, no throw; and no success carries a non-finite result.
C19_FailsClosed ==
    mathPc = "done" =>
        /\ ~mathOutcome.threw
        /\ mathOutcome.result.success => IsFinite(mathOutcome.result.data.result)
        /\ (DividesByLiteralZero(mathInput) \/ UnbalancedParentheses(mathInput)) =>
               MathFailed

\* The part of it about division by a literal zero.
MathZeroDivisionFails ==
    (mathPc = "done" /\ DividesByLiteralZero(mathInput)) =>
        /\ MathFailed
        /\ mathOutcome.result.error =
               <<"Failed to evaluate: ">> \o ExpressionText(mathInput, 1)

(***************************************************************************)
(* Properties of the request validation.                                   *)
(***************************************************************************)
\* session_id or message is missing or empty (or there is no body at all).
FailsValidation(body) ==
    \/ ~body.present
    \/ body.session_id.kind = "missing"
    \/ body.session_id = JsonString("")
    \/ body.message.kind = "missing"
    \/ body.message = JsonString(<<>>)

\* C20: the handler's step for a body that fails validation sends a
\* structured error response (status 400, a reply text, empty lists, a
\* session id) and leaves the memory as it was: no session created, no
\* message appended.
C20_RejectionChangesNothing ==
    [][(rtPc = "received" /\ FailsValidation(rtBody)) =>
          /\ rtPc' = "rejected"
          /\ rtReply'.status = 400
          /\ rtReply'.reply = <<"Invalid request body">>
          /\ rtReply'.used_chunks = <<>>
          /\ rtReply'.plugins_used = <<>>
          /\ rtReply'.memory_snapshot = <<>>
          /\ rtReply'.session_id # ""
          /\ sessions' = sessions
          /\ appendLog' = appendLog
          /\ nextId' = nextId]_vars

\* A request with a session id and an empty message has been rejected while
\* the session it names holds a message.
C20_Witness ==
    /\ rtPc = "rejected"
    /\ rtBody.present
    /\ rtBody.session_id = JsonString("s1")
    /\ rtBody.message = JsonString(<<>>)
    /\ rtReply.status = 400
    /\ "s1" \in DOMAIN sessions
    /\ Len(sessions["s1"].messages) = 1

\* C21: a request whose message is longer than 1000 characters is rejected as
\* a validation failure, and no session ever holds such a message.
C21_LongMessageRejected ==
    /\ (rtBody.present /\ rtBody.message.kind = "string"
            /\ Len(rtBody.message.value) > 1000) =>
           rtPc \in {"idle", "received", "rejected"}
    /\ \A sid \in DOMAIN sessions :
          \A k \in 1..Len(sessions[sid].messages) :
              Len(sessions[sid].messages[k].content) <= 1000

(***************************************************************************)
(* Properties of one request with its failures.                            *)
(***************************************************************************)
\* The stages a request completed before one of its calls threw.
StagesBeforeThrow(r) == SubSeq(reqs[r].stages, 1, Len(reqs[r].stages) - 1)

FailedBeforePrompt(r) ==
    /\ reqs[r].pc = "failed"
    /\ StagesBeforeThrow(r) \in {<<>>, <<"appendUser">>}

\* C22: a request whose user append or memory summary throws ends in a
\* processing error: it built no prompt, made no generation call and
\* appended no assistant message, and the route answers it with status 500.
C22_FatalBeforePrompt ==
    \A r \in ReqIds :
        (\E k \in 1..Len(reqs[r].stages) :
             reqs[r].stages[k] = "threw" /\ k <= 2) =>
            /\ reqs[r].pc = "failed"
            /\ reqs[r].prompt = <<>>
            /\ reqs[r].aiResponse = <<>>
            /\ reqs[r].asstMsgId = 0
            /\ \A k \in 1..Len(reqs[r].stages) :
                   reqs[r].stages[k] \notin {"promptBuilt", "generateStart", "generated",
                                             "appendAssistant"}
            \* the only assistant messages are those of earlier requests
            /\ \A sid \in DOMAIN appendLog :
                   \A k \in 1..Len(appendLog[sid]) :
                       \/ appendLog[sid][k].role = "user"
                       \/ appendLog[sid][k].timestamp < now
            /\ reqs[r].via = "endpoint" => reqs[r].status = 500

C22_Witness ==
    \E r \in ReqIds :
        /\ FailedBeforePrompt(r)
        /\ reqs[r].via = "endpoint"
        /\ reqs[r].stages = <<"threw">>
        /\ sessions = EmptyMap

EnvelopeFields == {"reply", "used_chunks", "plugins_used", "memory_snapshot", "session_id"}

\* C23: whatever the outcome of a request to the endpoint (answered, rejected
\* at validation, failed in processing), the body sent has all five fields
\* of the envelope; after a processing failure it holds no chunks, no plugin
\* outcomes and no memory, whatever the request had gathered.
C23_FullEnvelope ==
    \A r \in ReqIds :
        (reqs[r].via = "endpoint" /\ reqs[r].pc \in {"done", "rejected", "failed"}) =>
            /\ EnvelopeFields \subseteq DOMAIN reqs[r].response
            /\ reqs[r].response.reply # <<>>
            /\ reqs[r].response.session_id = reqs[r].sessionId
            /\ reqs[r].status = (CASE reqs[r].pc = "done" -> 200
                                   [] reqs[r].pc = "rejected" -> 400
                                   [] reqs[r].pc = "failed" -> 500)
            /\ reqs[r].pc # "done" =>
                   /\ reqs[r].response.used_chunks = <<>>
                   /\ reqs[r].response.plugins_used = <<>>
                   /\ reqs[r].response.memory_snapshot = <<>>

\* A request to the endpoint failed at its assistant append, after the
\* search had given it chunks and its user message was in memory.
C23_Witness ==
    \E r \in ReqIds :
        /\ reqs[r].via = "endpoint"
        /\ reqs[r].pc = "failed"
        /\ reqs[r].ragResults # <<>>
        /\ reqs[r].userMsgId # 0
        /\ reqs[r].sessionId \in DOMAIN sessions
        /\ reqs[r].response.used_chunks = <<>>

(***************************************************************************)
(* Properties of the memory service's summaries.                           *)
(***************************************************************************)
\* C24: a getSummary call (getFormattedSummary is one too) leaves every
\* session as it was, last-accessed time included, and creates none.
C24_SummaryReadOnly ==
    [][MemGetSummary => sessions' = sessions]_vars

\* What a getSummary call does leave alone: the set of sessions, and each
\* session's messages, creation time and maximum.
SummaryKeepsMessages ==
    [][MemGetSummary =>
          /\ DOMAIN sessions' = DOMAIN sessions
          /\ \A sid \in DOMAIN sessions :
                 /\ sessions'[sid].messages = sessions[sid].messages
                 /\ sessions'[sid].createdAt = sessions[sid].createdAt
                 /\ sessions'[sid].maxMessages = sessions[sid].maxMessages]_vars

\* The step is a call getSummary(sid, count).
GetSummaryCalled(sid, count) ==
    /\ MemGetSummary
    /\ sessions' = GetMemoryTouch(sessions, sid, now)
    /\ memResult' = SummaryOf(sessions', sid, count, now)

\* What the claim says the call returns.
SummaryAsStated(sid, count) ==
    IF sid \in DOMAIN sessions
      THEN LET msgs == sessions[sid].messages
               n == Min(count, Len(msgs))
           IN /\ memResult'.lastMessages = SubSeq(msgs, Len(msgs) - n + 1, Len(msgs))
              /\ memResult'.totalMessages = Len(msgs)
              /\ memResult'.sessionAge = (now - sessions[sid].createdAt) \div 60000
      ELSE /\ memResult'.lastMessages = <<>>
           /\ memResult'.totalMessages = 0
           /\ memResult'.sessionAge = 0

\* C25: getSummary(sid, count) returns, for every count >= 0, the
\* min(count, retained) most recent messages in order, the number of
\* retained messages and the whole minutes since creation; for an absent
\* session an empty list, 0 and 0.
C25_SummaryContents ==
    [][\A sid \in SessionIds, count \in 0..(MaxM + 1) :
          GetSummaryCalled(sid, count) => SummaryAsStated(sid, count)]_vars

\* The same for the counts from 1 on.
SummaryForPositiveCount ==
    [][\A sid \in SessionIds, count \in 1..(MaxM + 1) :
          GetSummaryCalled(sid, count) => SummaryAsStated(sid, count)]_vars

(***************************************************************************)
(* Properties of AgentService.buildPrompt.                                 *)
(***************************************************************************)
\* The place of the first piece of a prompt equal to `piece`, 0 if none is.
PlaceOf(prompt, piece) ==
    IF \E k \in 1..Len(prompt) : prompt[k] = piece
      THEN CHOOSE k \in 1..Len(prompt) :
              prompt[k] = piece /\ \A j \in 1..(k - 1) : prompt[j] # piece
      ELSE 0

Occurrences(prompt, piece) == Cardinality({k \in 1..Len(prompt) : prompt[k] = piece})

\* The sections of `headers` each occur once in the prompt, in that order.
InOrder(prompt, headers) ==
    /\ \A k \in 1..Len(headers) : Occurrences(prompt, headers[k]) = 1
    /\ \A k \in 1..(Len(headers) - 1) :
          PlaceOf(prompt, headers[k]) < PlaceOf(prompt, headers[k + 1])

NoDocumentsLine == "No relevant documents found.\n"

DocumentSectionAsStated ==
    (Occurrences(ppPrompt, NoDocumentsLine) = 1) <=> (Len(ppInput.ragResults) = 0)

LoggedIds == UNION {{appendLog[sid][k].id : k \in 1..Len(appendLog[sid])} :
                      sid \in DOMAIN appendLog}

\* Every addMessage call made so far is in the record of its session once,
\* and the record of a session is in the order the calls ran.
NoAppendLostOrDuplicated ==
    /\ LoggedIds = 1..nextId
    /\ \A sid \in DOMAIN appendLog :
          \A j, k \in 1..Len(appendLog[sid]) :
              j < k => appendLog[sid][j].id < appendLog[sid][k].id
    /\ \A r \in ReqIds :
          /\ reqs[r].userMsgId # 0 =>
                Logged(reqs[r].sessionId, reqs[r].userMsgId, "user", reqs[r].message)
          /\ reqs[r].asstMsgId # 0 =>
                Logged(reqs[r].sessionId, reqs[r].asstMsgId, "assistant",
                       reqs[r].aiResponse)

\* The last n entries of a sequence
LastEntries(a, n) == SubSeq(a, Len(a) - n + 1, Len(a))

\* The session holds the last min(total, M) of the messages appended to it
SessionsHoldLast ==
    \A sid \in DOMAIN appendLog :
        /\ sid \in DOMAIN sessions
        /\ sessions[sid].messages =
              LastEntries(appendLog[sid], Min(Len(appendLog[sid]), maxMessages))

\* C27: with requests for one session interleaving where they wait for the
\* search, the language model or a plugin, no appended message is lost or
\* duplicated, and every session holds the last min(total, M) messages
\* appended to it, in the order the appends ran.
C27_InterleavedAppendsKept == NoAppendLostOrDuplicated /\ SessionsHoldLast

\* The same for a configured maximum of at least one message.
InterleavedAppendsKeptForPositiveMax ==
    (maxMessages >= 1) => (NoAppendLostOrDuplicated /\ SessionsHoldLast)

\* Two requests for one session are in flight and each has appended its
\* user message before either appended its reply.
AppendsInterleaved ==
    \E r, q \in ReqIds :
        /\ r # q
        /\ reqs[r].sessionId = reqs[q].sessionId
        /\ ~Free(r) /\ ~Free(q)
        /\ reqs[r].userMsgId # 0 /\ reqs[q].userMsgId # 0
        /\ reqs[r].userMsgId < reqs[q].userMsgId
        /\ reqs[r].asstMsgId > reqs[q].userMsgId

(***************************************************************************)
(* What one request changes in the memory service.                         *)
(***************************************************************************)
SessionUnchanged(sid) ==
    /\ (sid \in DOMAIN sessions) <=> (sid \in DOMAIN sessions')
    /\ (sid \in DOMAIN sessions) => sessions'[sid] = sessions[sid]
    /\ (sid \in DOMAIN appendLog) <=> (sid \in DOMAIN appendLog')
    /\ (sid \in DOMAIN appendLog) => appendLog'[sid] = appendLog[sid]

\* The places in the record of session sid written since the request's
\* user message.
AppendedSince(sid, id) ==
    IF sid \in DOMAIN appendLog
      THEN {k \in 1..Len(appendLog[sid]) : appendLog[sid][k].id >= id}
      ELSE {}

AddedExactlyTwo(r) ==
    LET mine == AppendedSince(reqs[r].sessionId, reqs[r].userMsgId)
        log == appendLog[reqs[r].sessionId]
    IN /\ Cardinality(mine) = 2
       /\ \E j, k \in mine :
             /\ j + 1 = k
             /\ k = Len(log)
             /\ log[j].id = reqs[r].userMsgId /\ log[j].role = "user"
             /\ log[j].content = reqs[r].message
             /\ log[k].id = reqs[r].asstMsgId /\ log[k].role = "assistant"
             /\ log[k].content = reqs[r].aiResponse
       /\ \A sid \in SessionIds \ {reqs[r].sessionId} :
             AppendedSince(sid, reqs[r].userMsgId) = {}

\* C29: a step of a request for session s leaves every other session as it
\* was (its messages, its creation time, its last-accessed time, and whether
\* it exists), and a request that has completed has added exactly two
\* messages to s, its user message and then its assistant message.
C29_OnlyOwnSession ==
    /\ [][\A r \in ReqIds :
             (reqs'[r] # reqs[r]) =>
                 \A sid \in SessionIds \ {reqs'[r].sessionId} : SessionUnchanged(sid)]_vars
    /\ [](\A r \in ReqIds : (reqs[r].pc = "done") => AddedExactlyTwo(r))

\* A request for "s2" completed a minute after the session "s1" was last
\* used, and it found documents on the way.
C29_Witness ==
    \E r \in ReqIds :
        /\ reqs[r].pc = "done"
        /\ reqs[r].sessionId = "s2"
        /\ "s1" \in DOMAIN sessions /\ "s2" \in DOMAIN sessions
        /\ sessions["s1"].lastAccessed < sessions["s2"].lastAccessed
        /\ sessions["s1"].messages # <<>>

(***************************************************************************)
(* Properties of the overlapping splitters.                                *)
(***************************************************************************)
\* C28: for every content and every overlap with 0 <= overlap < maxTokens
\* (content of more than maxTokens words included), a call of the splitter
\* returns: its loop ends.
C28_SplitterTerminates == <>(spPc = "returned")

\* Without overlap the call returns, and its chunks are the words in order.
SplitterTerminatesWithoutOverlap ==
    /\ (spOverlap = 0) ~> (spPc = "returned")
    /\ []((spOverlap = 0 /\ spPc = "returned" /\ Len(spWords) > spMaxTokens
             /\ Len(spWords) <= MaxSplitChunks * spMaxTokens)
            => JoinSpace(spChunks) = JoinSpace(spWords))

\* With an overlap of at least one word, a call that enters the loop is
\* never out of it again.
SplitterSpinsWithOverlap ==
    [](spPc = "loop" /\ spOverlap >= 1 => [](spPc = "loop"))

\* The loop is past the end of the words and still running: the last chunk
\* has been pushed more than once.
SplitterRepeatsLastChunk ==
    /\ spPc = "loop"
    /\ Len(spChunks) >= 2
    /\ spChunks[Len(spChunks)] = spChunks[Len(spChunks) - 1]
    /\ spStart = Len(spWords) - spOverlap

(***************************************************************************)
(* Properties of MemoryVectorStore.addChunks.                              *)
(***************************************************************************)
\* The chunks held are the most recently added ones, oldest first.
HoldsMostRecent ==
    \A k \in 1..Len(vsChunks) : vsChunks[k] = vsAdded - Len(vsChunks) + k

\* C30: after any sequence of addChunks calls with batches of any size the
\* store holds at most 1000 chunks, and the chunks it holds are the most
\* recently added ones.
C30_StoreBounded ==
    /\ Len(vsChunks) <= MaxStoreChunks
    /\ HoldsMostRecent

\* What the trimming does keep to: the store holds the most recently added
\* chunks, and after a call never more than half the limit plus the batch
\* of that call.
StoreKeepsRecent ==
    /\ HoldsMostRecent
    /\ [][AddChunks =>
            LET size == vsAdded' - vsAdded
            IN IF Len(vsChunks) + size > MaxStoreChunks
                 THEN Len(vsChunks') = Min(Len(vsChunks), MaxStoreChunks \div 2) + size
                 ELSE Len(vsChunks') = Len(vsChunks) + size]_vars

\* The store trimmed and still holds more than the limit.
StoreOverLimitAfterTrim ==
    /\ Len(vsChunks) > MaxStoreChunks
    /\ vsAdded > Len(vsChunks)

====
